---- MODULE Spec2Model ----
(* A model of pycaching's Cache entity (src/pycaching/cache.py): the field   *)
(* setters, the three population strategies, the lazy getters and the        *)
(* logbook generator.                                                        *)
(*                                                                           *)
(* Python values are records [ty, s, n, items]: ty is the Python type name,  *)
(* s the text of a str (or the identifying text of a Point / enum member),   *)
(* n the number of an int / bool / date, or of a float in hundredths, and    *)
(* items the (key, value) pairs of a dict in insertion order.  A field of    *)
(* the entity is <<>> while the attribute does not exist on the instance and *)
(* <<v>> once it has been assigned.                                          *)
EXTENDS Integers, Sequences, FiniteSets, TLC

VARIABLES cache, prev, last, outcome, fetches, server, gen, hist

vars == <<cache, prev, last, outcome, fetches, server, gen, hist>>

(* Bounds *)

MaxWpLen == 4
MaxAssign == 2
MaxCalls == 2
MaxPages == 3
MaxPageSize == 2
MaxLimit == 3
RatingGridMax == 600

(* Python str methods *)

Lowers == "abcdefghijklmnopqrstuvwxyz"
Uppers == "ABCDEFGHIJKLMNOPQRSTUVWXYZ"

CharAt(s, i) == SubSeq(s, i, i)

IsSpace(c) == c \in {" ", "\t", "\n", "\r"}

UpperChar(c) ==
    IF \E i \in 1..26 : CharAt(Lowers, i) = c
    THEN CharAt(Uppers, CHOOSE i \in 1..26 : CharAt(Lowers, i) = c)
    ELSE c

LowerChar(c) ==
    IF \E i \in 1..26 : CharAt(Uppers, i) = c
    THEN CharAt(Lowers, CHOOSE i \in 1..26 : CharAt(Uppers, i) = c)
    ELSE c

RECURSIVE Upper(_)
Upper(s) == IF s = "" THEN "" ELSE UpperChar(Head(s)) \o Upper(Tail(s))

RECURSIVE Lower(_)
Lower(s) == IF s = "" THEN "" ELSE LowerChar(Head(s)) \o Lower(Tail(s))

RECURSIVE LStrip(_)
LStrip(s) == IF s # "" /\ IsSpace(Head(s)) THEN LStrip(Tail(s)) ELSE s

RECURSIVE RStrip(_)
RStrip(s) ==
    IF s # "" /\ IsSpace(CharAt(s, Len(s)))
    THEN RStrip(SubSeq(s, 1, Len(s) - 1))
    ELSE s

Strip(s) == RStrip(LStrip(s))

StartsWith(s, p) == Len(s) >= Len(p) /\ SubSeq(s, 1, Len(p)) = p

Contains(s, sub) ==
    \E i \in 1..(Len(s) - Len(sub) + 1) : SubSeq(s, i, i + Len(sub) - 1) = sub

RECURSIVE Replace(_, _, _)
Replace(s, old, new) ==
    IF Len(s) < Len(old) THEN s
    ELSE IF StartsWith(s, old)
         THEN new \o Replace(SubSeq(s, Len(old) + 1, Len(s)), old, new)
         ELSE Head(s) \o Replace(Tail(s), old, new)

(* Python values *)

PyStr(s) == [ty |-> "str", s |-> s, n |-> 0, items |-> <<>>]
PyFloat(h) == [ty |-> "float", s |-> "", n |-> h, items |-> <<>>]
PyInt(i) == [ty |-> "int", s |-> "", n |-> i, items |-> <<>>]
PyBool(b) == [ty |-> "bool", s |-> "", n |-> IF b THEN 1 ELSE 0, items |-> <<>>]
PyNone == [ty |-> "NoneType", s |-> "", n |-> 0, items |-> <<>>]
PyPoint(p) == [ty |-> "Point", s |-> p, n |-> 0, items |-> <<>>]
PyDate(d) == [ty |-> "date", s |-> "", n |-> d, items |-> <<>>]
PyType(v) == [ty |-> "Type", s |-> v, n |-> 0, items |-> <<>>]
PySize(v) == [ty |-> "Size", s |-> v, n |-> 0, items |-> <<>>]
PyDict(items) == [ty |-> "dict", s |-> "", n |-> 0, items |-> items]

Item(k, v) == [k |-> k, v |-> v]

(* the result of a call: the entity afterwards and the exception raised *)
Res(c, e) == [c |-> c, exc |-> e]

Unset == <<>>
IsSet(c, f) == c[f] # Unset
Val(c, f) == c[f][1]
Put(c, f, v) == [c EXCEPT ![f] = <<v>>]

(* Enumerations *)

(* the values of Type: the image filename tokens *)
TypeValues ==
    {"2", "3", "8", "5", "6", "mega", "giga", "137", "13", "11", "4", "1858",
     "10Years_32", "ape_32", "HQ_32", "1304", "4738", "12"}

(* Type.from_filename: the earthcache alias, then a lookup by value *)
Type_from_filename(filename) ==
    LET f == IF filename = "earthcache" THEN "137" ELSE filename
    IN  IF f \in TypeValues THEN [exc |-> "ok", v |-> PyType(f)]
        ELSE [exc |-> "builtins.ValueError", v |-> PyNone]

(* name_mapping of Type.from_string: display name -> value *)
name_mapping ==
    [n \in {"traditional", "multi-cache", "mystery", "unknown",
            "letterbox hybrid", "event", "mega-event", "giga-event",
            "earthcache", "cito", "cache in trash out event", "webcam",
            "virtual", "wherigo", "lost and found event", "project ape",
            "groundspeak hq", "gps adventures exhibit",
            "groundspeak block party", "locationless (reverse)"} |->
        CASE n = "traditional" -> "2"
          [] n = "multi-cache" -> "3"
          [] n = "mystery" -> "8"
          [] n = "unknown" -> "8"
          [] n = "letterbox hybrid" -> "5"
          [] n = "event" -> "6"
          [] n = "mega-event" -> "mega"
          [] n = "giga-event" -> "giga"
          [] n = "earthcache" -> "137"
          [] n = "cito" -> "13"
          [] n = "cache in trash out event" -> "13"
          [] n = "webcam" -> "11"
          [] n = "virtual" -> "4"
          [] n = "wherigo" -> "1858"
          [] n = "lost and found event" -> "10Years_32"
          [] n = "project ape" -> "ape_32"
          [] n = "groundspeak hq" -> "HQ_32"
          [] n = "gps adventures exhibit" -> "1304"
          [] n = "groundspeak block party" -> "4738"
          [] n = "locationless (reverse)" -> "12"]

(* Type.from_string: a str is normalised and looked up; anything without  *)
(* a replace method fails on the first call                                *)
Type_from_string(name) ==
    IF name.ty # "str" THEN [exc |-> "AttributeError", v |-> PyNone]
    ELSE LET n == Strip(Lower(Replace(Replace(name.s, " Geocache", ""),
                                      " Cache", "")))
         IN  IF n \in DOMAIN name_mapping
             THEN [exc |-> "ok", v |-> PyType(name_mapping[n])]
             ELSE [exc |-> "ValueError", v |-> PyNone]

(* the members of Size: member name -> value *)
SizeMembers ==
    [m \in {"micro", "small", "regular", "large", "not_chosen", "virtual",
            "other"} |-> IF m = "not_chosen" THEN "not chosen" ELSE m]

SizeValues == {SizeMembers[m] : m \in DOMAIN SizeMembers}

(* Size.from_filename: a lookup by member name *)
Size_from_filename(filename) ==
    IF filename \in DOMAIN SizeMembers
    THEN [exc |-> "ok", v |-> PySize(SizeMembers[filename])]
    ELSE [exc |-> "KeyError", v |-> PyNone]

(* Size.from_string: a lookup by value of the trimmed lower-case name *)
Size_from_string(name) ==
    IF name.ty # "str" THEN [exc |-> "AttributeError", v |-> PyNone]
    ELSE LET n == Lower(Strip(name.s))
         IN  IF n \in SizeValues THEN [exc |-> "ok", v |-> PySize(n)]
             ELSE [exc |-> "ValueError", v |-> PyNone]
(* Cache._possible_attributes: the keys of the static attribute registry *)
_possible_attributes ==
    {"abandonedbuilding", "available", "bicycles", "boat", "campfires",
     "camping", "cliff", "climbing", "cow", "danger", "dangerousanimals",
     "dogs", "fee", "field_puzzle", "firstaid", "flashlight", "food",
     "frontyard", "fuel", "geotour", "hike_long", "hike_med", "hike_short",
     "hiking", "horses", "hunting", "jeeps", "kids", "landf", "mine",
     "motorcycles", "night", "nightcache", "onehour", "parking", "parkngrab",
     "partnership", "phone", "picnic", "poisonoak", "public", "quads",
     "rappelling", "restrooms", "rv", "s-tool", "scenic", "scuba",
     "seasonal", "skiis", "snowmobiles", "snowshoes", "stealth", "stroller",
     "swimming", "teamwork", "thorn", "ticks", "touristok", "treeclimbing",
     "uv", "wading", "water", "wheelchair", "winter", "wirelessbeacon"}

(* Python built-in conversions.  A float is held in hundredths, so float() *)
(* of a str is defined for decimal numerals with at most two decimals.     *)

Digits == "0123456789"

IsDigit(c) == \E i \in 1..10 : CharAt(Digits, i) = c

DigitVal(c) == (CHOOSE i \in 1..10 : CharAt(Digits, i) = c) - 1

IsDigits(s) == s # "" /\ \A i \in 1..Len(s) : IsDigit(CharAt(s, i))

RECURSIVE NatVal(_)
NatVal(s) ==
    IF s = "" THEN 0
    ELSE NatVal(SubSeq(s, 1, Len(s) - 1)) * 10 + DigitVal(CharAt(s, Len(s)))

(* the hundredths denoted by the numeral t, or -1 when t is no numeral *)
NumeralVal(t) ==
    IF IsDigits(t) THEN NatVal(t) * 100
    ELSE IF \E i \in 2..Len(t) :
                /\ CharAt(t, i) = "."
                /\ IsDigits(SubSeq(t, 1, i - 1))
                /\ Len(t) - i \in 1..2
                /\ IsDigits(SubSeq(t, i + 1, Len(t)))
         THEN LET i == CHOOSE j \in 2..Len(t) : CharAt(t, j) = "."
                  fr == SubSeq(t, i + 1, Len(t))
              IN  NatVal(SubSeq(t, 1, i - 1)) * 100
                    + (IF Len(fr) = 1 THEN NatVal(fr) * 10 ELSE NatVal(fr))
         ELSE -1

Py_float(v) ==
    CASE v.ty = "float" -> [exc |-> "ok", v |-> v]
      [] v.ty \in {"int", "bool"} -> [exc |-> "ok", v |-> PyFloat(v.n * 100)]
      [] v.ty = "str" ->
            LET t == Strip(v.s)
                neg == StartsWith(t, "-")
                h == NumeralVal(IF neg THEN Tail(t) ELSE t)
            IN  IF h < 0 THEN [exc |-> "builtins.ValueError", v |-> PyNone]
                ELSE [exc |-> "ok", v |-> PyFloat(IF neg THEN 0 - h ELSE h)]
      [] OTHER -> [exc |-> "TypeError", v |-> PyNone]

Py_int(v) ==
    CASE v.ty \in {"int", "bool"} -> [exc |-> "ok", v |-> PyInt(v.n)]
      [] v.ty = "float" ->
            [exc |-> "ok",
             v |-> PyInt(IF v.n >= 0 THEN v.n \div 100
                         ELSE 0 - ((0 - v.n) \div 100))]
      [] v.ty = "str" ->
            LET t == Strip(v.s)
                neg == StartsWith(t, "-")
                d == IF neg THEN Tail(t) ELSE t
            IN  IF IsDigits(d)
                THEN [exc |-> "ok",
                      v |-> PyInt(IF neg THEN 0 - NatVal(d) ELSE NatVal(d))]
                ELSE [exc |-> "builtins.ValueError", v |-> PyNone]
      [] OTHER -> [exc |-> "TypeError", v |-> PyNone]

Py_bool(v) ==
    CASE v.ty = "str" -> v.s # ""
      [] v.ty \in {"int", "bool", "float"} -> v.n # 0
      [] v.ty = "NoneType" -> FALSE
      [] v.ty = "dict" -> v.items # <<>>
      [] OTHER -> TRUE

RECURSIVE NatStr(_)
NatStr(n) ==
    IF n < 10 THEN CharAt(Digits, n + 1)
    ELSE NatStr(n \div 10) \o CharAt(Digits, (n % 10) + 1)

Py_str(v) ==
    CASE v.ty = "str" -> v.s
      [] v.ty = "NoneType" -> "None"
      [] v.ty = "bool" -> IF v.n = 1 THEN "True" ELSE "False"
      [] v.ty = "int" -> IF v.n < 0 THEN "-" \o NatStr(0 - v.n) ELSE NatStr(v.n)
      [] OTHER -> "<" \o v.ty \o ">"

(* Collaborators outside cache.py *)

(* the coordinate texts Point.from_string understands *)
CoordinateTexts == {"N49 E13", "N50 E14"}

Point_from_string(s) ==
    IF Strip(s) \in CoordinateTexts
    THEN [exc |-> "ok", v |-> PyPoint(Strip(s))]
    ELSE [exc |-> "ValueError", v |-> PyNone]

(* the date texts parse_date understands, as day numbers *)
DateTexts == [t \in {"2015-01-02", "01/03/2015"} |->
                 IF t = "2015-01-02" THEN 16437 ELSE 16438]

parse_date(s) ==
    IF Strip(s) \in DOMAIN DateTexts
    THEN [exc |-> "ok", v |-> PyDate(DateTexts[Strip(s)])]
    ELSE [exc |-> "ValueError", v |-> PyNone]

Rot13Char(c) ==
    IF \E i \in 1..26 : CharAt(Lowers, i) = c
    THEN LET i == CHOOSE j \in 1..26 : CharAt(Lowers, j) = c
         IN  CharAt(Lowers, ((i + 12) % 26) + 1)
    ELSE IF \E i \in 1..26 : CharAt(Uppers, i) = c
    THEN LET i == CHOOSE j \in 1..26 : CharAt(Uppers, j) = c
         IN  CharAt(Uppers, ((i + 12) % 26) + 1)
    ELSE c

RECURSIVE rot13(_)
rot13(s) == IF s = "" THEN "" ELSE Rot13Char(Head(s)) \o rot13(Tail(s))

(* The entity's fields.  "wp" .. "trackable_page_url" are the instance     *)
(* attributes _wp, _guid, url, _name, ..., __logbook_token,                *)
(* __trackable_page_url.                                                   *)

LazyFields ==
    {"name", "location", "original_location", "waypoints", "type", "state",
     "found", "size", "difficulty", "terrain", "author", "hidden",
     "attributes", "summary", "description", "hint", "favorites",
     "logbook_token", "trackable_page_url"}

Fields == LazyFields \cup {"wp", "guid", "url", "pm_only"}

(* Field setters: each returns the entity afterwards and the exception.   *)
(* "ValueError" is pycaching's errors.ValueError, the validation error.   *)

(* wp setter that checks the normalized form but stores the text given *)
wp_setter_raw(c, wp) ==
    LET w == Strip(Upper(Py_str(wp)))
    IN  IF ~StartsWith(w, "GC") THEN Res(c, "ValueError")
        ELSE Res(Put(c, "wp", PyStr(Py_str(wp))), "ok")

(* wp setter that trims but does not upper-case *)
wp_setter_noupper(c, wp) ==
    LET w == Strip(Py_str(wp))
    IN  IF ~StartsWith(w, "GC") THEN Res(c, "ValueError")
        ELSE Res(Put(c, "wp", PyStr(w)), "ok")

wp_setter(c, wp) ==
    LET w == Strip(Upper(Py_str(wp)))
    IN  IF ~StartsWith(w, "GC") THEN Res(c, "ValueError")
        ELSE Res(Put(c, "wp", PyStr(w)), "ok")

GuidHex == "0123456789abcdef"

(* re.match of guid_regex: 8-4-4-4-12 lower-case hex digits; "$" also     *)
(* matches before one trailing newline                                     *)
guid_regex_match(s) ==
    LET body(t) ==
            /\ Len(t) = 36
            /\ \A i \in 1..36 :
                  IF i \in {9, 14, 19, 24} THEN CharAt(t, i) = "-"
                  ELSE \E j \in 1..16 : CharAt(GuidHex, j) = CharAt(t, i)
    IN  \/ body(s)
        \/ Len(s) = 37 /\ CharAt(s, 37) = "\n" /\ body(SubSeq(s, 1, 36))

guid_setter(c, guid) ==
    IF guid.ty # "str" THEN Res(c, "AttributeError")
    ELSE LET g == Strip(guid.s)
         IN  IF ~guid_regex_match(g) THEN Res(c, "ValueError")
             ELSE Res(Put(c, "guid", PyStr(g)), "ok")

name_setter(c, name) == Res(Put(c, "name", PyStr(Strip(Py_str(name)))), "ok")

location_setter(c, location) ==
    IF location.ty = "str"
    THEN LET r == Point_from_string(location.s)
         IN  IF r.exc # "ok" THEN Res(c, r.exc)
             ELSE Res(Put(c, "location", r.v), "ok")
    ELSE IF location.ty # "Point" THEN Res(c, "ValueError")
    ELSE Res(Put(c, "location", location), "ok")

original_location_setter(c, original_location) ==
    IF original_location.ty = "str"
    THEN LET r == Point_from_string(original_location.s)
         IN  IF r.exc # "ok" THEN Res(c, r.exc)
             ELSE Res(Put(c, "original_location", r.v), "ok")
    ELSE IF original_location.ty # "Point" /\ original_location.ty # "NoneType"
    THEN Res(c, "ValueError")
    ELSE Res(Put(c, "original_location", original_location), "ok")

waypoints_setter(c, waypoints) == Res(Put(c, "waypoints", waypoints), "ok")

type_setter(c, type) ==
    IF type.ty # "Type"
    THEN LET r == Type_from_string(type)
         IN  IF r.exc # "ok" THEN Res(c, r.exc)
             ELSE Res(Put(c, "type", r.v), "ok")
    ELSE Res(Put(c, "type", type), "ok")

state_setter(c, state) == Res(Put(c, "state", PyBool(Py_bool(state))), "ok")

found_setter(c, found) == Res(Put(c, "found", PyBool(Py_bool(found))), "ok")

size_setter(c, size) ==
    IF size.ty # "Size"
    THEN LET r == Size_from_string(size)
         IN  IF r.exc # "ok" THEN Res(c, r.exc)
             ELSE Res(Put(c, "size", r.v), "ok")
    ELSE Res(Put(c, "size", size), "ok")

(* difficulty setter that checks the range but not the 0.5 step *)
difficulty_setter_nostep(c, difficulty) ==
    LET r == Py_float(difficulty)
    IN  IF r.exc # "ok" THEN Res(c, r.exc)
        ELSE IF r.v.n < 100 \/ r.v.n > 500
        THEN Res(c, "ValueError")
        ELSE Res(Put(c, "difficulty", r.v), "ok")

difficulty_setter(c, difficulty) ==
    LET r == Py_float(difficulty)
    IN  IF r.exc # "ok" THEN Res(c, r.exc)
        ELSE IF r.v.n < 100 \/ r.v.n > 500 \/ (r.v.n * 10) % 500 # 0
        THEN Res(c, "ValueError")
        ELSE Res(Put(c, "difficulty", r.v), "ok")

terrain_setter(c, terrain) ==
    LET r == Py_float(terrain)
    IN  IF r.exc # "ok" THEN Res(c, r.exc)
        ELSE IF r.v.n < 100 \/ r.v.n > 500 \/ (r.v.n * 10) % 500 # 0
        THEN Res(c, "ValueError")
        ELSE Res(Put(c, "terrain", r.v), "ok")

author_setter(c, author) ==
    Res(Put(c, "author", PyStr(Strip(Py_str(author)))), "ok")

hidden_setter(c, hidden) ==
    IF hidden.ty = "str"
    THEN LET r == parse_date(hidden.s)
         IN  IF r.exc # "ok" THEN Res(c, r.exc)
             ELSE Res(Put(c, "hidden", r.v), "ok")
    ELSE IF hidden.ty # "date" THEN Res(c, "ValueError")
    ELSE Res(Put(c, "hidden", hidden), "ok")

(* dict item assignment: an existing key keeps its place *)
DictSet(items, k, v) ==
    IF \E i \in 1..Len(items) : items[i].k = k
    THEN [i \in 1..Len(items) |->
             IF items[i].k = k THEN Item(k, v) ELSE items[i]]
    ELSE Append(items, Item(k, v))

(* the for loop of the attributes setter over the remaining items *)
RECURSIVE attributes_loop(_, _)
attributes_loop(c, its) ==
    IF its = <<>> THEN Res(c, "ok")
    ELSE LET it == Head(its)
         IN  IF it.k.ty # "str" THEN Res(c, "AttributeError")
             ELSE LET name == Lower(Strip(it.k.s))
                  IN  IF name \in _possible_attributes
                      THEN attributes_loop(
                             Put(c, "attributes",
                                 PyDict(DictSet(Val(c, "attributes").items,
                                                PyStr(name), it.v))),
                             Tail(its))
                      ELSE attributes_loop(c, Tail(its))

(* attributes setter that adds to the stored map *)
attributes_setter_merge(c, attributes) ==
    IF attributes.ty # "dict" THEN Res(c, "ValueError")
    ELSE attributes_loop(IF IsSet(c, "attributes") THEN c
                         ELSE Put(c, "attributes", PyDict(<<>>)),
                         attributes.items)

attributes_setter(c, attributes) ==
    IF attributes.ty # "dict" THEN Res(c, "ValueError")
    ELSE attributes_loop(Put(c, "attributes", PyDict(<<>>)), attributes.items)

summary_setter(c, summary) ==
    Res(Put(c, "summary", PyStr(Strip(Py_str(summary)))), "ok")

description_setter(c, description) ==
    Res(Put(c, "description", PyStr(Strip(Py_str(description)))), "ok")

hint_setter(c, hint) == Res(Put(c, "hint", PyStr(Strip(Py_str(hint)))), "ok")

favorites_setter(c, favorites) ==
    LET r == Py_int(favorites)
    IN  IF r.exc # "ok" THEN Res(c, r.exc)
        ELSE Res(Put(c, "favorites", r.v), "ok")

pm_only_setter(c, pm_only) ==
    Res(Put(c, "pm_only", PyBool(Py_bool(pm_only))), "ok")

logbook_token_setter(c, logbook_token) ==
    Res(Put(c, "logbook_token", logbook_token), "ok")

trackable_page_url_setter(c, trackable_page_url) ==
    Res(Put(c, "trackable_page_url", trackable_page_url), "ok")

(* self.<f> = v: the property setter of f, or a plain attribute for url *)
Assign(c, f, v) ==
    CASE f = "wp" -> wp_setter(c, v)
      [] f = "guid" -> guid_setter(c, v)
      [] f = "name" -> name_setter(c, v)
      [] f = "location" -> location_setter(c, v)
      [] f = "original_location" -> original_location_setter(c, v)
      [] f = "waypoints" -> waypoints_setter(c, v)
      [] f = "type" -> type_setter(c, v)
      [] f = "state" -> state_setter(c, v)
      [] f = "found" -> found_setter(c, v)
      [] f = "size" -> size_setter(c, v)
      [] f = "difficulty" -> difficulty_setter(c, v)
      [] f = "terrain" -> terrain_setter(c, v)
      [] f = "author" -> author_setter(c, v)
      [] f = "hidden" -> hidden_setter(c, v)
      [] f = "attributes" -> attributes_setter(c, v)
      [] f = "summary" -> summary_setter(c, v)
      [] f = "description" -> description_setter(c, v)
      [] f = "hint" -> hint_setter(c, v)
      [] f = "favorites" -> favorites_setter(c, v)
      [] f = "pm_only" -> pm_only_setter(c, v)
      [] f = "logbook_token" -> logbook_token_setter(c, v)
      [] f = "trackable_page_url" -> trackable_page_url_setter(c, v)
      [] OTHER -> Res(Put(c, f, v), "ok")

(* a run of assignments, cut short by the first exception *)
RECURSIVE AssignAll(_, _)
AssignAll(r, as) ==
    IF r.exc # "ok" \/ as = <<>> THEN r
    ELSE AssignAll(Assign(r.c, Head(as)[1], Head(as)[2]), Tail(as))

(* Text helpers of the parsers *)

(* s.split(ch)[-1] *)
RECURSIVE AfterLast(_, _)
AfterLast(s, ch) ==
    IF Contains(s, ch) THEN AfterLast(Tail(s), ch) ELSE s

(* s.rsplit(ch, 1)[0] *)
BeforeLast(s, ch) ==
    IF Contains(s, ch)
    THEN SubSeq(s, 1, Len(s) - Len(AfterLast(s, ch)) - 1)
    ELSE s

(* s.split(ch)[0] *)
RECURSIVE BeforeFirst(_, _)
BeforeFirst(s, ch) ==
    IF s = "" \/ Head(s) = ch THEN ""
    ELSE Head(s) \o BeforeFirst(Tail(s), ch)

(* s.split()[0]: the first whitespace-separated word, "" when there is none *)
RECURSIVE WordHead(_)
WordHead(s) ==
    IF s = "" \/ IsSpace(Head(s)) THEN "" ELSE Head(s) \o WordHead(Tail(s))

FirstWord(s) == WordHead(LStrip(s))

(* an optional element of a document: <<>> when absent, <<text>> when present *)
Absent == <<>>
Present(x) == <<x>>

Ok(v) == [exc |-> "ok", v |-> v]
Raise(e) == [exc |-> e, v |-> PyNone]

(* one statement of a strategy: the value computed, or the exception its  *)
(* computation raises, and the field it is assigned to ("" for none)      *)
Step(f, r) == [f |-> f, r |-> r]

(* the statements in order, cut short by the first exception *)
RECURSIVE RunSteps(_, _)
RunSteps(r, steps) ==
    IF r.exc # "ok" \/ steps = <<>> THEN r
    ELSE LET st == Head(steps)
         IN  IF st.r.exc # "ok" THEN Res(r.c, st.r.exc)
             ELSE IF st.f = "" THEN RunSteps(r, Tail(steps))
             ELSE RunSteps(Assign(r.c, st.f, st.r.v), Tail(steps))

(* Point(text): the constructor on a coordinate pair *)
Point_ctor(s) == PyPoint(Strip(s))

PyWaypoint(id, hasloc) ==
    [ty |-> "Waypoint", s |-> id, n |-> IF hasloc THEN 1 ELSE 0,
     items |-> <<>>]

(* Waypoint.from_html: one entry per pair of table rows, keyed by the     *)
(* identifier; a location text that does not parse gives location None    *)
RECURSIVE from_html_rows(_, _)
from_html_rows(items, rows) ==
    IF rows = <<>> THEN items
    ELSE LET row == Head(rows)
             id == Strip(row.identifier)
             loc == Strip(row.location) \in CoordinateTexts
         IN  from_html_rows(DictSet(items, PyStr(id), PyWaypoint(id, loc)),
                            Tail(rows))

Waypoint_from_html(table) ==
    IF table = Absent THEN PyDict(<<>>)
    ELSE PyDict(from_html_rows(<<>>, table[1]))

(* the dict comprehension over attributes_raw: the icon file names split  *)
(* at their last "-"; "blank" icons are left out, the others map the name *)
(* to whether the appendix starts with "yes"                              *)
RECURSIVE attributes_from_icons(_, _)
attributes_from_icons(items, srcs) ==
    IF srcs = <<>> THEN Ok(PyDict(items))
    ELSE LET file == AfterLast(Head(srcs), "/")
         IN  IF ~Contains(file, "-") THEN Raise("builtins.ValueError")
             ELSE LET name == BeforeLast(file, "-")
                      appendix == AfterLast(file, "-")
                  IN  IF StartsWith(appendix, "blank")
                      THEN attributes_from_icons(items, Tail(srcs))
                      ELSE attributes_from_icons(
                             DictSet(items, PyStr(name),
                                     PyBool(StartsWith(appendix, "yes"))),
                             Tail(srcs))

(* Cache.load *)

(* the statements of the branch for a document with the pmo-banner *)
load_pm_steps(d) ==
    <<Step("wp", Ok(PyStr(Strip(d.gccode)))),
      Step("name", Ok(PyStr(Strip(d.h1)))),
      Step("author",
           Ok(PyStr(SubSeq(d.cache_by, Len("A cache by ") + 1,
                           Len(d.cache_by))))),
      Step("difficulty", Py_float(PyStr(d.details[3]))),
      Step("terrain", Py_float(PyStr(d.details[6]))),
      Step("size", Size_from_string(PyStr(d.details[9]))),
      Step("favorites", Py_int(PyStr(d.details[12])))>>

(* the statements of the other branch after the code from the title *)
load_basic_steps(d) ==
    <<Step("name", Ok(PyStr(d.h2))),
      Step("author", Ok(PyStr(d.author_a))),
      Step("size",
           Size_from_filename(BeforeLast(AfterLast(d.size_img, "/"), "."))),
      Step("", IF FirstWord(d.dt_alts[1]) = "" THEN Raise("IndexError")
               ELSE Py_float(PyStr(FirstWord(d.dt_alts[1])))),
      Step("", IF FirstWord(d.dt_alts[2]) = "" THEN Raise("IndexError")
               ELSE Py_float(PyStr(FirstWord(d.dt_alts[2])))),
      Step("difficulty", Py_float(PyStr(FirstWord(d.dt_alts[1])))),
      Step("terrain", Py_float(PyStr(FirstWord(d.dt_alts[2]))))>>

(* a load() that leaves the type out *)
load_type_steps_none(d) == <<>>

load_type_steps(d) ==
    <<Step("type",
           Type_from_filename(BeforeLast(AfterLast(d.type_img, "/"), ".")))>>

(* the statements after the PMOnlyException check, up to the favorites *)
load_detail_steps(d) ==
    <<Step("pm_only",
           Ok(PyBool(d.warning # Absent
                     /\ Contains(d.warning[1], "Premium Member Only")))),
      Step("hidden", parse_date(AfterLast(d.hidden_text, ":"))),
      Step("location", Point_from_string(d.latlon)),
      Step("state", Ok(PyBool(~d.old_warning))),
      Step("found", Ok(IF d.found_status = Absent THEN PyBool(FALSE)
                       ELSE PyStr("Found It!"))),
      Step("attributes", attributes_from_icons(<<>>, d.attr_srcs)),
      Step("summary", Ok(PyStr(d.summary))),
      Step("description", Ok(PyStr(d.description))),
      Step("hint", Ok(PyStr(rot13(Strip(d.hint))))),
      Step("favorites", IF d.favorite = Absent THEN Ok(PyInt(0))
                        ELSE Py_int(PyStr(d.favorite[1])))>>

(* the statements on the scripts, the inventory widget and the waypoints *)
(* the widget steps that leave original_location alone when the document  *)
(* has no old coordinates                                                 *)
load_widget_steps_skip(d) ==
    <<Step("logbook_token", IF d.user_tokens = <<>> THEN Raise("IndexError")
                            ELSE Ok(PyStr(d.user_tokens[1])))>>
      \o (IF d.old_lat_lng = Absent THEN <<>>
          ELSE <<Step("original_location", Ok(Point_ctor(d.old_lat_lng[1])))>>)
      \o <<Step("trackable_page_url",
                IF d.inventory_links >= 3
                THEN Ok(PyStr(SubSeq(d.view_all_href, 4, Len(d.view_all_href))))
                ELSE Ok(PyNone)),
           Step("waypoints", Ok(Waypoint_from_html(d.waypoints_table)))>>

load_widget_steps(d) ==
    <<Step("logbook_token", IF d.user_tokens = <<>> THEN Raise("IndexError")
                            ELSE Ok(PyStr(d.user_tokens[1]))),
      Step("original_location",
           IF d.old_lat_lng = Absent THEN Ok(PyNone)
           ELSE Ok(Point_ctor(d.old_lat_lng[1]))),
      Step("trackable_page_url",
           IF d.inventory_links >= 3
           THEN Ok(PyStr(SubSeq(d.view_all_href, 4, Len(d.view_all_href))))
           ELSE Ok(PyNone)),
      Step("waypoints", Ok(Waypoint_from_html(d.waypoints_table)))>>

(* load() that stops after the favorites *)
load_full_steps_short(d) == load_detail_steps(d)

(* everything load() assigns after the PMOnlyException check *)
load_full_steps(d) == load_detail_steps(d) \o load_widget_steps(d)

(* the banner check and the fields every viewer may see, the type included *)
load_reduced(c, d) ==
    LET titled(c0, w) ==
            IF w.exc # "ok" THEN Res(c0, "LoadError")
            ELSE RunSteps(w, load_basic_steps(d))
        branch(c0) ==
            IF d.pmo THEN RunSteps(Res(c0, "ok"), load_pm_steps(d))
            ELSE titled(c0,
                        IF d.title = Absent THEN Res(c0, "AttributeError")
                        ELSE wp_setter(c0,
                                       PyStr(BeforeFirst(d.title[1], " "))))
    IN  RunSteps(branch(pm_only_setter(c, PyBool(d.pmo)).c),
                 load_type_steps(d))

(* a parse that reports a restricted document as a plain load failure *)
load_parse_loaderror(c, d) ==
    LET rest(typed) ==
            IF typed.exc # "ok" THEN typed
            ELSE IF d.pmo THEN Res(typed.c, "LoadError")
            ELSE RunSteps(typed, load_full_steps(d))
    IN  rest(load_reduced(c, d))

(* the parse of a fetched document d into the entity c *)
load_parse(c, d) ==
    LET rest(typed) ==
            IF typed.exc # "ok" THEN typed
            ELSE IF d.pmo THEN Res(typed.c, "PMOnlyException")
            ELSE RunSteps(typed, load_full_steps(d))
    IN  rest(load_reduced(c, d))

(* load(): the entity afterwards, the exception, the requests issued *)
load(c, d) ==
    IF ~IsSet(c, "url") /\ ~IsSet(c, "wp")
    THEN [c |-> c, exc |-> "LoadError", n |-> 0]
    ELSE IF d.status # "ok" THEN [c |-> c, exc |-> "LoadError", n |-> 1]
    ELSE LET fetched(r) == [c |-> r.c, exc |-> r.exc, n |-> 1]
         IN  fetched(load_parse(c, d))

(* the lazy_loaded wrapper around the getter of f: the getter, and when   *)
(* the attribute is missing load() and then the getter again              *)
lazy_loaded(c, f, d) ==
    IF IsSet(c, f)
    THEN [c |-> c, exc |-> "ok", ret |-> <<Val(c, f)>>, n |-> 0]
    ELSE LET again(l) ==
                 IF l.exc # "ok"
                 THEN [c |-> l.c, exc |-> l.exc, ret |-> <<>>, n |-> l.n]
                 ELSE IF IsSet(l.c, f)
                 THEN [c |-> l.c, exc |-> "ok", ret |-> <<Val(l.c, f)>>,
                       n |-> l.n]
                 ELSE [c |-> l.c, exc |-> "AttributeError", ret |-> <<>>,
                       n |-> l.n]
         IN  again(load(c, d))

(* Cache.load_quick *)

(* load_quick() that also marks the cache as not found *)
load_quick_steps_found(data) ==
    <<Step("name", Ok(PyStr(data.name))),
      Step("type", Type_from_string(PyStr(data.type_text))),
      Step("state", Ok(PyBool(data.available))),
      Step("found", Ok(PyBool(FALSE))),
      Step("size", Size_from_string(PyStr(data.container_text))),
      Step("difficulty", Ok(PyFloat(data.difficulty_text))),
      Step("terrain", Ok(PyFloat(data.terrain_text))),
      Step("hidden", parse_date(data.hidden)),
      Step("author", Ok(PyStr(data.owner_text))),
      Step("favorites", Py_int(PyStr(data.fp))),
      Step("pm_only", Ok(PyBool(data.subrOnly))),
      Step("guid", Ok(PyStr(data.g)))>>

load_quick_steps(data) ==
    <<Step("name", Ok(PyStr(data.name))),
      Step("type", Type_from_string(PyStr(data.type_text))),
      Step("state", Ok(PyBool(data.available))),
      Step("size", Size_from_string(PyStr(data.container_text))),
      Step("difficulty", Ok(PyFloat(data.difficulty_text))),
      Step("terrain", Ok(PyFloat(data.terrain_text))),
      Step("hidden", parse_date(data.hidden)),
      Step("author", Ok(PyStr(data.owner_text))),
      Step("favorites", Py_int(PyStr(data.fp))),
      Step("pm_only", Ok(PyBool(data.subrOnly))),
      Step("guid", Ok(PyStr(data.g)))>>

(* load_quick() that refuses only a failed envelope without one record *)
load_quick_and(c, t) ==
    IF ~IsSet(c, "wp")
    THEN [c |-> c, exc |-> "AttributeError", msg |-> "", n |-> 0]
    ELSE IF t.status = "failed" /\ Len(t.data) # 1
    THEN [c |-> c, exc |-> "LoadError",
          msg |-> "Cache " \o Val(c, "wp").s \o " cannot be loaded: "
                    \o (IF t.msg # Absent THEN t.msg[1]
                        ELSE "Unknown error (probably not existing cache)"),
          n |-> 1]
    ELSE IF t.data = <<>>
    THEN [c |-> c, exc |-> "IndexError", msg |-> "", n |-> 1]
    ELSE LET fetched(r) == [c |-> r.c, exc |-> r.exc, msg |-> "", n |-> 1]
         IN  fetched(RunSteps(Res(c, "ok"), load_quick_steps(t.data[1])))

(* load_quick() on the envelope t: the entity afterwards, the exception   *)
(* with its message, the requests issued                                  *)
load_quick(c, t) ==
    IF ~IsSet(c, "wp")
    THEN [c |-> c, exc |-> "AttributeError", msg |-> "", n |-> 0]
    ELSE IF t.status = "failed" \/ Len(t.data) # 1
    THEN [c |-> c, exc |-> "LoadError",
          msg |-> "Cache " \o Val(c, "wp").s \o " cannot be loaded: "
                    \o (IF t.msg # Absent THEN t.msg[1]
                        ELSE "Unknown error (probably not existing cache)"),
          n |-> 1]
    ELSE LET fetched(r) == [c |-> r.c, exc |-> r.exc, msg |-> "", n |-> 1]
         IN  fetched(RunSteps(Res(c, "ok"), load_quick_steps(t.data[1])))

(* Cache.load_by_guid *)

(* s.split(sep)[1]: the text between the first and the second sep *)
RECURSIVE UpToSep(_, _)
UpToSep(s, sep) ==
    IF s = "" \/ StartsWith(s, sep) THEN ""
    ELSE Head(s) \o UpToSep(Tail(s), sep)

RECURSIVE AfterSep(_, _)
AfterSep(s, sep) ==
    IF s = "" THEN ""
    ELSE IF StartsWith(s, sep) THEN SubSeq(s, Len(sep) + 1, Len(s))
    ELSE AfterSep(Tail(s), sep)

SecondPiece(s, sep) == UpToSep(AfterSep(s, sep), sep)

(* s.split()[-1]: the last whitespace-separated word, "" when there is none *)
RECURSIVE WordTail(_)
WordTail(s) ==
    IF s = "" \/ IsSpace(CharAt(s, Len(s))) THEN ""
    ELSE WordTail(SubSeq(s, 1, Len(s) - 1)) \o CharAt(s, Len(s))

LastWord(s) == WordTail(RStrip(s))

(* the assignments of load_by_guid() from the print page p, in order *)
load_by_guid_steps(p) ==
    <<Step("name", Ok(PyStr(p.h2))),
      Step("location", Point_from_string(p.latlong)),
      Step("type",
           Type_from_filename(BeforeLast(AfterLast(p.type_img, "/"), "."))),
      Step("size", IF ~Contains(p.size_alt, ": ") THEN Raise("IndexError")
                   ELSE Size_from_string(
                          PyStr(SecondPiece(p.size_alt, ": ")))),
      Step("", IF FirstWord(p.dt_alts[1]) = "" THEN Raise("IndexError")
               ELSE Py_float(PyStr(FirstWord(p.dt_alts[1])))),
      Step("", IF FirstWord(p.dt_alts[2]) = "" THEN Raise("IndexError")
               ELSE Py_float(PyStr(FirstWord(p.dt_alts[2])))),
      Step("difficulty", Py_float(PyStr(FirstWord(p.dt_alts[1])))),
      Step("terrain", Py_float(PyStr(FirstWord(p.dt_alts[2])))),
      Step("author", IF Len(p.placed_by) < 3 THEN Raise("IndexError")
                     ELSE Ok(PyStr(Strip(p.placed_by[3])))),
      Step("hidden",
           Ok(PyStr(Strip(Replace(p.placed_date, "Placed Date:", ""))))),
      Step("attributes", attributes_from_icons(<<>>, p.attr_srcs)),
      Step("summary", Ok(PyStr(p.summary))),
      Step("description", Ok(PyStr(p.description))),
      Step("hint", Ok(PyStr(p.hint))),
      Step("favorites", IF LastWord(p.favorites) = "" THEN Raise("IndexError")
                        ELSE Ok(PyStr(LastWord(p.favorites)))),
      Step("waypoints", Ok(Waypoint_from_html(p.waypoints_table)))>>

(* load_by_guid() with the envelope t and the print page p served: when   *)
(* the guid is missing load_quick() first, then the request of the print  *)
(* page, PMOnlyException on its warning, else the assignments             *)
load_by_guid(c, t, p) ==
    LET print(q) ==
            IF q.exc # "ok" THEN q
            ELSE IF p.warning
            THEN [c |-> q.c, exc |-> "PMOnlyException", msg |-> "",
                  n |-> q.n + 1]
            ELSE LET parsed(r) ==
                         [c |-> r.c, exc |-> r.exc, msg |-> "", n |-> q.n + 1]
                 IN  parsed(RunSteps(Res(q.c, "ok"), load_by_guid_steps(p)))
    IN  print(IF ~IsSet(c, "guid") \/ Val(c, "guid").ty = "NoneType"
                 \/ Val(c, "guid").s = ""
              THEN load_quick(c, t)
              ELSE [c |-> c, exc |-> "ok", msg |-> "", n |-> 0])

(* Cache.load_logbook *)

MaxPerPage == 100

(* the answer to the k-th page request: the k-th scripted page, an empty  *)
(* successful page once the script is over                                *)
PageAt(pages, k) ==
    IF k <= Len(pages) THEN pages[k]
    ELSE [status |-> "success", msg |-> Absent, data |-> <<>>]

(* _logbook_get_page that hands back the data whatever the status *)
_logbook_get_page_nocheck(c, d, pages, k) ==
    LET request(tk) ==
            IF tk.exc # "ok"
            THEN [c |-> tk.c, exc |-> tk.exc, msg |-> "", data |-> <<>>,
                  n |-> tk.n, asked |-> FALSE]
            ELSE [c |-> tk.c, exc |-> "ok", msg |-> "",
                  data |-> PageAt(pages, k).data, n |-> tk.n + 1,
                  asked |-> TRUE]
    IN  request(lazy_loaded(c, "logbook_token", d))

(* _logbook_get_page as the k-th page request: the token is read through  *)
(* its lazy getter, the page is requested, a status other than "success"  *)
(* raises LoadError with the msg of the answer                            *)
_logbook_get_page(c, d, pages, k) ==
    LET request(tk) ==
            IF tk.exc # "ok"
            THEN [c |-> tk.c, exc |-> tk.exc, msg |-> "", data |-> <<>>,
                  n |-> tk.n, asked |-> FALSE]
            ELSE LET res == PageAt(pages, k)
                 IN  IF res.status # "success"
                     THEN [c |-> tk.c, exc |-> "LoadError",
                           msg |-> "Logbook cannot be loaded: "
                                     \o (IF res.msg # Absent THEN res.msg[1]
                                         ELSE "Unknown error"),
                           data |-> <<>>, n |-> tk.n + 1, asked |-> TRUE]
                     ELSE [c |-> tk.c, exc |-> "ok", msg |-> "",
                           data |-> res.data, n |-> tk.n + 1, asked |-> TRUE]
    IN  request(lazy_loaded(c, "logbook_token", d))

(* the Log built from one record of a page *)
MkLog(log_data) ==
    [type |-> BeforeLast(log_data.LogTypeImage, "."),
     text |-> log_data.LogText,
     visited |-> log_data.Visited,
     author |-> log_data.UserName]

(* the generator frame before load_logbook is called; pep479 tells        *)
(* whether the interpreter turns a StopIteration raised inside a          *)
(* generator into RuntimeError (Python 3.7 and later) or lets it end the  *)
(* iteration (before 3.7)                                                 *)
IdleGen(pep479) ==
    [pc |-> "idle", pep479 |-> pep479, unlimited |-> FALSE, limit |-> 0,
     limit_arg |-> 0, page |-> 0, per_page |-> 0, buf |-> <<>>, yielded |-> <<>>,
     requests |-> <<>>, fetched |-> FALSE]

(* what a step of the generator gives: the frame and the entity           *)
(* afterwards, what the consumer's next() sees, the requests issued       *)
GenRes(g, c, exc, msg, ret, n) ==
    [g |-> g, c |-> c, exc |-> exc, msg |-> msg, ret |-> ret, n |-> n]

(* raise StopIteration() in the generator body *)
gen_stop(g, c, n) ==
    GenRes([g EXCEPT !.pc = "done", !.buf = <<>>], c,
           IF g.pep479 THEN "RuntimeError" ELSE "StopIteration", "", <<>>, n)

(* the body of the for loop on the next record of the page *)
gen_take(g, c, n) ==
    LET g1 == IF g.unlimited THEN g ELSE [g EXCEPT !.limit = @ - 1]
    IN  IF ~g1.unlimited /\ g1.limit < 0 THEN gen_stop(g1, c, n)
        ELSE GenRes([g1 EXCEPT !.pc = "suspended", !.buf = Tail(@),
                                !.yielded = Append(@, MkLog(Head(g.buf)))],
                    c, "ok", "", <<MkLog(Head(g.buf))>>, n)

(* the body of the while loop asking for the remaining limit *)
gen_page_remaining(g, c, d, pages) ==
    LET asked == [g EXCEPT !.requests =
                              Append(@, [idx |-> g.page + 1,
                                         num |-> IF g.unlimited
                                                 \/ g.limit > g.per_page
                                                 THEN g.per_page
                                                 ELSE g.limit]),
                           !.fetched = TRUE]
        got(p) ==
            IF p.exc # "ok"
            THEN GenRes([(IF p.asked THEN asked ELSE g) EXCEPT !.pc = "done"],
                        p.c, p.exc, p.msg, <<>>, p.n)
            ELSE IF p.data = <<>>
            THEN gen_stop([asked EXCEPT !.page = @ + 1, !.buf = p.data],
                          p.c, p.n)
            ELSE gen_take([asked EXCEPT !.page = @ + 1, !.buf = p.data],
                          p.c, p.n)
    IN  got(_logbook_get_page(c, d, pages, Len(g.requests) + 1))

(* the body of the while loop: one more page, then its first record *)
gen_page(g, c, d, pages) ==
    LET asked == [g EXCEPT !.requests =
                              Append(@, [idx |-> g.page + 1,
                                         num |-> g.per_page]),
                           !.fetched = TRUE]
        got(p) ==
            IF p.exc # "ok"
            THEN GenRes([(IF p.asked THEN asked ELSE g) EXCEPT !.pc = "done"],
                        p.c, p.exc, p.msg, <<>>, p.n)
            ELSE IF p.data = <<>>
            THEN gen_stop([asked EXCEPT !.page = @ + 1, !.buf = p.data],
                          p.c, p.n)
            ELSE gen_take([asked EXCEPT !.page = @ + 1, !.buf = p.data],
                          p.c, p.n)
    IN  got(_logbook_get_page(c, d, pages, Len(g.requests) + 1))

(* next() on the generator *)
gen_next(g, c, d, pages) ==
    LET g0 == [g EXCEPT !.fetched = FALSE]
    IN  CASE g.pc = "start" ->
               gen_page([g0 EXCEPT !.page = 0,
                                   !.per_page =
                                      IF g.unlimited \/ g.limit > MaxPerPage
                                      THEN MaxPerPage ELSE g.limit],
                        c, d, pages)
          [] g.pc = "suspended" ->
               IF g.buf # <<>> THEN gen_take(g0, c, 0)
               ELSE gen_page(g0, c, d, pages)
          [] OTHER -> GenRes(g0, c, "StopIteration", "", <<>>, 0)

(* Cache.load_trackables *)

(* the links of the listing's second table whose href contains "track",   *)
(* as (name, url) pairs in document order                                 *)
RECURSIVE TrackLinks(_)
TrackLinks(links) ==
    IF links = <<>> THEN <<>>
    ELSE (IF Contains(Head(links).href, "track")
          THEN <<[name |-> Head(links).name, url |-> Head(links).href]>>
          ELSE <<>>)
           \o TrackLinks(Tail(links))

(* the body of the for loop on the next (name, url) pair *)
trackables_take(g, c, n) ==
    LET g1 == IF g.unlimited THEN g ELSE [g EXCEPT !.limit = @ - 1]
    IN  IF ~g1.unlimited /\ g1.limit < 0 THEN gen_stop(g1, c, n)
        ELSE GenRes([g1 EXCEPT !.pc = "suspended", !.buf = Tail(@),
                                !.yielded = Append(@, Head(g.buf))],
                    c, "ok", "", <<Head(g.buf)>>, n)

(* the for loop: the next pair, or the end of the body when none is left *)
trackables_loop(g, c, n) ==
    IF g.buf = <<>>
    THEN GenRes([g EXCEPT !.pc = "done"], c, "StopIteration", "", <<>>, n)
    ELSE trackables_take(g, c, n)

(* the body up to the for loop: the url read through its lazy getter, no  *)
(* url raises StopIteration, else the listing is requested and its second *)
(* table searched for links                                               *)
trackables_start(g, c, d, listing) ==
    LET resolved(u) ==
            IF u.exc # "ok"
            THEN GenRes([g EXCEPT !.pc = "done"], u.c, u.exc, "", <<>>, u.n)
            ELSE IF ~Py_bool(u.ret[1]) THEN gen_stop(g, u.c, u.n)
            ELSE LET asked == [g EXCEPT !.requests = Append(@, Py_str(u.ret[1])),
                                        !.fetched = TRUE]
                 IN  IF ~listing.second_table
                     THEN GenRes([asked EXCEPT !.pc = "done"], u.c,
                                 "IndexError", "", <<>>, u.n + 1)
                     ELSE trackables_loop(
                              [asked EXCEPT !.buf = TrackLinks(listing.links)],
                              u.c, u.n + 1)
    IN  resolved(lazy_loaded(c, "trackable_page_url", d))

(* next() on the generator of load_trackables *)
trackables_next(g, c, d, listing) ==
    LET g0 == [g EXCEPT !.fetched = FALSE]
    IN  CASE g.pc = "start" -> trackables_start(g0, c, d, listing)
          [] g.pc = "suspended" -> trackables_loop(g0, c, 0)
          [] OTHER -> GenRes(g0, c, "StopIteration", "", <<>>, 0)

(* Cache.post_log *)

Pad2(n) == IF n < 10 THEN "0" \o NatStr(n) ELSE NatStr(n)

(* date.strftime("%Y-%m-%d") for a year of four digits *)
strftime_ymd(d) == NatStr(d.year) \o "-" \o Pad2(d.month) \o "-" \o Pad2(d.day)

(* Cache._get_log_page_url: the wp getter, lower-cased into the url *)
_get_log_page_url(c) ==
    IF ~IsSet(c, "wp") THEN [exc |-> "AttributeError", url |-> ""]
    ELSE [exc |-> "ok",
          url |-> "play/geocache/" \o Lower(Val(c, "wp").s) \o "/log"]

(* the dict built from the inputs of type hidden or submit: name to       *)
(* value, "" without a value, a later input replacing an earlier one of   *)
(* the same name                                                          *)
RECURSIVE HiddenInputsDict(_, _)
HiddenInputsDict(inputs, items) ==
    IF inputs = <<>> THEN items
    ELSE HiddenInputsDict(
             Tail(inputs),
             IF Head(inputs).type \in {"hidden", "submit"}
             THEN DictSet(items, Head(inputs).name,
                          IF Head(inputs).value = Absent THEN ""
                          ELSE Head(inputs).value[1])
             ELSE items)

(* Cache._load_log_page: the logging page is requested, the values of the *)
(* options of its LogTypeId select and its hidden inputs are handed back  *)
_load_log_page(c, form) ==
    LET requested(u) ==
            IF u.exc # "ok"
            THEN [exc |-> u.exc, valid_types |-> {}, hidden_inputs |-> <<>>,
                  n |-> 0]
            ELSE IF form.select = Absent
            THEN [exc |-> "AttributeError", valid_types |-> {},
                  hidden_inputs |-> <<>>, n |-> 1]
            ELSE [exc |-> "ok",
                  valid_types |-> {form.select[1][i] :
                                      i \in 1..Len(form.select[1])},
                  hidden_inputs |-> HiddenInputsDict(form.inputs, <<>>),
                  n |-> 1]
    IN  requested(_get_log_page_url(c))

(* post_log that submits whatever the type of the log *)
post_log_anytype(c, log, form) ==
    IF log.text = ""
    THEN [exc |-> "ValueError", msg |-> "Log text is empty", n |-> 0,
          post |-> <<>>]
    ELSE LET loaded(p) ==
                 IF p.exc # "ok"
                 THEN [exc |-> p.exc, msg |-> "", n |-> p.n, post |-> <<>>]
                 ELSE [exc |-> "ok", msg |-> "", n |-> p.n + 1,
                       post |->
                          <<[url |-> _get_log_page_url(c).url,
                             data |->
                                DictSet(
                                  DictSet(
                                    DictSet(p.hidden_inputs, "LogTypeId",
                                            log.type),
                                    "LogDate", strftime_ymd(log.visited)),
                                  "LogText", log.text)]>>]
         IN  loaded(_load_log_page(c, form))

(* Cache.post_log: an empty text raises before any request; the logging   *)
(* page is loaded; a type that is not among its options raises; the       *)
(* hidden inputs with LogTypeId, LogDate and LogText set are posted       *)
post_log(c, log, form) ==
    IF log.text = ""
    THEN [exc |-> "ValueError", msg |-> "Log text is empty", n |-> 0,
          post |-> <<>>]
    ELSE LET loaded(p) ==
                 IF p.exc # "ok"
                 THEN [exc |-> p.exc, msg |-> "", n |-> p.n, post |-> <<>>]
                 ELSE IF log.type \notin p.valid_types
                 THEN [exc |-> "ValueError",
                       msg |-> "The cache does not accept this type of log",
                       n |-> p.n, post |-> <<>>]
                 ELSE [exc |-> "ok", msg |-> "", n |-> p.n + 1,
                       post |->
                          <<[url |-> _get_log_page_url(c).url,
                             data |->
                                DictSet(
                                  DictSet(
                                    DictSet(p.hidden_inputs, "LogTypeId",
                                            log.type),
                                    "LogDate", strftime_ymd(log.visited)),
                                  "LogText", log.text)]>>]
         IN  loaded(_load_log_page(c, form))

(* State machine *)

EmptyCache == [f \in Fields |-> Unset]

(* Cache.__init__: the wp setter when a code is given, then the setter of *)
(* every keyword given; the instance exists only if none of them raised   *)
Construct(wp, kwargs) ==
    AssignAll(Res(EmptyCache, "ok"),
              (IF wp.ty = "NoneType" THEN <<>> ELSE << <<"wp", wp>> >>)
                \o kwargs)

(* how the last call ended: the exception and its message, the value     *)
(* returned, the requests the call issued                                 *)
NoOutcome == [exc |-> "ok", msg |-> "", ret |-> <<>>, n |-> 0]

NoLast == [op |-> "init", field |-> "", arg |-> PyNone]

(* what has been done with the instance: how it was constructed, how many *)
(* calls were made on it and of which kinds                               *)
NoHist(init) == [init |-> init, n |-> 0, kinds |-> {}]

Called(h, kind) == [h EXCEPT !.n = @ + 1, !.kinds = @ \cup {kind}]

(* Inputs of the setters *)

RECURSIVE StringsUpTo(_, _)
StringsUpTo(A, n) ==
    IF n = 0 THEN {""}
    ELSE LET p == StringsUpTo(A, n - 1)
         IN  p \cup {s \o a : s \in p, a \in A}

WpAlphabet == {"g", "C", " ", "1"}

WpInputs == {PyStr(s) : s \in StringsUpTo(WpAlphabet, MaxWpLen)}

WpSamples == {PyStr("GC2"), PyStr(" gc1 "), PyStr("XX1"), PyStr("")}

RatingSamples ==
    {PyFloat(100), PyFloat(250), PyFloat(50), PyFloat(230), PyStr("abc"),
     PyNone}

GuidInputs ==
    {PyStr("12345678-90ab-cdef-1234-567890abcdef"),
     PyStr("  12345678-90ab-cdef-1234-567890abcdef\n"),
     PyStr("12345678-90AB-CDEF-1234-567890ABCDEF"),
     PyStr("12345678"), PyNone}

LocationInputs ==
    {PyPoint("N49 E13"), PyStr(" N50 E14 "), PyStr("nowhere"), PyInt(5),
     PyNone}

TypeInputs ==
    {PyType("2"), PyStr("Traditional Cache"), PyStr("Mystery Geocache"),
     PyStr(" multi-cache"), PyStr("bogus"), PyInt(3)}

SizeInputs ==
    {PySize("micro"), PyStr(" Small "), PyStr("Not chosen"), PyStr("huge"),
     PyNone}

(* ratings on a grid of 0.05 from -0.5, two values off the grid, and      *)
(* inputs of other types                                                   *)
RatingInputs ==
    {PyFloat(h) : h \in {g \in -50..RatingGridMax : g % 5 = 0} \cup {101, 249}}
      \cup {PyStr("2.5"), PyStr(" 3 "), PyStr("0.5"), PyStr("abc"), PyInt(3),
            PyInt(7), PyNone}

HiddenInputs ==
    {PyDate(16437), PyStr(" 2015-01-02"), PyStr("01/03/2015"), PyStr("soon"),
     PyInt(1)}

AttributesInputs ==
    {PyDict(<<>>),
     PyDict(<<Item(PyStr("dogs"), PyBool(TRUE))>>),
     PyDict(<<Item(PyStr(" Kids "), PyBool(FALSE)),
              Item(PyStr("bogus"), PyBool(TRUE))>>),
     PyDict(<<Item(PyStr("Dogs"), PyBool(TRUE)),
              Item(PyStr("dogs"), PyBool(FALSE))>>),
     PyDict(<<Item(PyStr("kids"), PyBool(TRUE)),
              Item(PyInt(5), PyBool(TRUE))>>),
     PyDict(<<Item(PyInt(5), PyBool(TRUE))>>),
     PyStr("dogs"), PyNone}

FavoritesInputs ==
    {PyInt(0), PyInt(7), PyStr(" 12 "), PyStr("many"), PyFloat(250), PyNone}

(* cache.<f> = v by the caller *)
SetField(f, v) ==
    /\ hist.n < MaxAssign
    /\ \E r \in {Assign(cache, f, v)} :
           /\ cache' = r.c
           /\ outcome' = [exc |-> r.exc, msg |-> "", ret |-> <<>>, n |-> 0]
    /\ prev' = cache
    /\ last' = [op |-> "set", field |-> f, arg |-> v]
    /\ hist' = Called(hist, "set")
    /\ UNCHANGED <<fetches, server, gen>>

Set_wp == \E v \in WpSamples : SetField("wp", v)
Set_guid == \E v \in GuidInputs : SetField("guid", v)
Set_location == \E v \in LocationInputs : SetField("location", v)
Set_original_location ==
    \E v \in LocationInputs : SetField("original_location", v)
Set_type == \E v \in TypeInputs : SetField("type", v)
Set_size == \E v \in SizeInputs : SetField("size", v)
Set_difficulty == \E v \in RatingSamples : SetField("difficulty", v)
Set_terrain == \E v \in RatingSamples : SetField("terrain", v)
Set_hidden == \E v \in HiddenInputs : SetField("hidden", v)
Set_attributes == \E v \in AttributesInputs : SetField("attributes", v)
Set_favorites == \E v \in FavoritesInputs : SetField("favorites", v)

(* the wp setter as the first assignment after construction, on every    *)
(* short text over WpAlphabet                                             *)
Assign_wp == hist.n = 0 /\ \E v \in WpInputs : SetField("wp", v)

(* the rating setters as the first assignment after construction, on the *)
(* whole grid of ratings                                                  *)
Assign_difficulty ==
    hist.n = 0 /\ \E v \in RatingInputs : SetField("difficulty", v)
Assign_terrain ==
    hist.n = 0 /\ \E v \in RatingInputs : SetField("terrain", v)

(* The documents the server serves *)

(* a cache_details page: status "error" when the request fails; pmo: the  *)
(* pmo-banner; code: the GC code in the title (none for "") and in the    *)
(* reduced layout; found: the FoundStatus element; opt: whether the       *)
(* optional elements (warnings, favorite count, original coordinates,     *)
(* inventory links, waypoints table) are there                            *)
MkDoc(status, pmo, code, found, opt) ==
    [status |-> status,
     pmo |-> pmo,
     gccode |-> "  " \o code \o "\n",
     h1 |-> " Secret Cache ",
     cache_by |-> "A cache by Alice",
     details |-> <<"", "Difficulty", "4.5", "", "Terrain", "2", "", "Size",
                   " Small", "", "Favorites", "7">>,
     title |-> IF code = "" THEN Absent
               ELSE Present(code \o " Nice Cache"),
     h2 |-> " Nice Cache",
     author_a |-> "Bob ",
     size_img |-> "/c/micro.gif",
     dt_alts |-> <<"2.5 out of 5", "3 out of 5">>,
     type_img |-> "/t/2.gif",
     warning |-> IF opt THEN Present("A Premium Member Only cache")
                 ELSE Absent,
     hidden_text |-> "Hidden : 01/03/2015",
     latlon |-> "N49 E13",
     old_warning |-> opt,
     found_status |-> found,
     attr_srcs |-> <<"/a/dogs-yes.gif", "/a/kids-no.gif",
                     "/a/parking-blank.gif", "/a/bogus-yes.gif">>,
     summary |-> " short ",
     description |-> "<div>long</div>",
     hint |-> " Haqre ",
     favorite |-> IF opt THEN Present("3") ELSE Absent,
     user_tokens |-> <<"TOKEN">>,
     old_lat_lng |-> IF opt THEN Present("50.0, 14.0") ELSE Absent,
     inventory_links |-> IF opt THEN 3 ELSE 1,
     view_all_href |-> "../track/search.aspx?wid=1",
     waypoints_table |->
        IF opt THEN Present(<<[identifier |-> " P1 ", location |-> "N50 E14"],
                              [identifier |-> "S2", location |-> "???"]>>)
        ELSE Absent]

GoodDoc == MkDoc("ok", FALSE, "GC1", Absent, FALSE)

Docs ==
    {MkDoc("error", FALSE, "GC1", Absent, FALSE)}
      \cup {MkDoc("ok", TRUE, code, Absent, FALSE) : code \in {"GC1", "GC2"}}
      \cup {MkDoc("ok", FALSE, code, found, opt) :
               code \in {"GC1", "GC2", "OX5", ""},
               found \in {Absent, Present("Found It!"),
                          Present("Did Not Find")},
               opt \in BOOLEAN}

(* a record of the map.details answer *)
TileRecord(type_text) ==
    [name |-> " Quick Cache ",
     type_text |-> type_text,
     available |-> FALSE,
     container_text |-> "Regular",
     difficulty_text |-> 150,
     terrain_text |-> 400,
     hidden |-> "2015-01-02",
     owner_text |-> "Carol",
     fp |-> "12",
     subrOnly |-> TRUE,
     g |-> "12345678-90ab-cdef-1234-567890abcdef"]

(* the map.details envelope: its status, its msg when there is one, its   *)
(* data list of ndata records                                             *)
MkTile(status, hasmsg, ndata, type_text) ==
    [status |-> status,
     msg |-> IF hasmsg THEN Present("no such cache") ELSE Absent,
     data |-> [i \in 1..ndata |-> TileRecord(type_text)]]

GoodTile == MkTile("success", FALSE, 1, "Multi-cache")

Tiles ==
    {MkTile(status, hasmsg, ndata, type_text) :
        status \in {"success", "failed"}, hasmsg \in BOOLEAN,
        ndata \in 0..2, type_text \in {"Multi-cache", "Teleport Cache"}}

(* the ways the entity is constructed *)
SomeGuid == "abcdef01-2345-6789-abcd-ef0123456789"

EntityConfigs ==
    {[init |-> "wp", wp |-> PyStr("GC1"), kw |-> <<>>],
     [init |-> "kwargs", wp |-> PyStr("GC1"),
      kw |-> << <<"location", PyStr("N50 E14")>>,
                <<"guid", PyStr(SomeGuid)>>,
                <<"found", PyBool(TRUE)>>,
                <<"hint", PyStr("under the stone")>> >>],
     [init |-> "url", wp |-> PyNone,
      kw |-> << <<"url", PyStr("http://coord.info/GC1")>> >>],
     [init |-> "none", wp |-> PyNone, kw |-> <<>>]}

(* Calls on the entity *)

Call(kind, f, r) ==
    /\ hist.n < MaxCalls
    /\ cache' = r.c
    /\ outcome' = [exc |-> r.exc, msg |-> r.msg, ret |-> r.ret, n |-> r.n]
    /\ fetches' = fetches + r.n
    /\ prev' = cache
    /\ last' = [op |-> kind, field |-> f, arg |-> PyNone]
    /\ hist' = Called(hist, kind)
    /\ UNCHANGED <<server, gen>>

(* cache.load() *)
Load ==
    \E r \in {load(cache, server.doc)} :
        Call("load", "", [c |-> r.c, exc |-> r.exc, msg |-> "", ret |-> <<>>,
                          n |-> r.n])

(* cache.load_quick() *)
LoadQuick ==
    \E r \in {load_quick(cache, server.tile)} :
        Call("load_quick", "", [c |-> r.c, exc |-> r.exc, msg |-> r.msg,
                                ret |-> <<>>, n |-> r.n])

(* a read of the lazy property f *)
Get(f) ==
    \E r \in {lazy_loaded(cache, f, server.doc)} :
        Call("get", f, [c |-> r.c, exc |-> r.exc, msg |-> "", ret |-> r.ret,
                        n |-> r.n])

(* a read of a property without the lazy wrapper: wp, pm_only *)
GetPlain(f) ==
    Call("get_plain", f,
         IF IsSet(cache, f)
         THEN [c |-> cache, exc |-> "ok", msg |-> "",
               ret |-> <<Val(cache, f)>>, n |-> 0]
         ELSE [c |-> cache, exc |-> "AttributeError", msg |-> "",
               ret |-> <<>>, n |-> 0])

Get_wp == GetPlain("wp")

Get_pm_only == GetPlain("pm_only")

(* a read of guid: getattr with the default None *)
Get_guid ==
    Call("get_plain", "guid",
         [c |-> cache, exc |-> "ok", msg |-> "",
          ret |-> IF IsSet(cache, "guid") THEN <<Val(cache, "guid")>>
                  ELSE <<PyNone>>,
          n |-> 0])

(* a print page (cdpf.aspx): warning: the p.Warning element; opt: whether *)
(* the waypoints table is there                                           *)
MkPrint(warning, opt) ==
    [warning |-> warning,
     h2 |-> " Print Cache ",
     latlong |-> " N50 E14 ",
     type_img |-> "/t/3.gif",
     size_alt |-> "Size: large",
     dt_alts |-> <<"1 out of 5", "1.5 out of 5">>,
     placed_by |-> <<"", " Placed by:", "  Erin ", "">>,
     placed_date |-> " Placed Date: 2015-01-02 ",
     attr_srcs |-> <<"/a/kids-yes.gif", "/a/dogs-no.gif", "/a/bogus-no.gif",
                     "/a/parking-blank.gif">>,
     summary |-> "print short",
     description |-> "print long",
     hint |-> "under a stone",
     favorites |-> " Favorites: 5 ",
     waypoints_table |->
        IF opt THEN Present(<<[identifier |-> "P1", location |-> "N50 E14"]>>)
        ELSE Absent]

GoodPrint == MkPrint(FALSE, FALSE)

Prints == {MkPrint(w, opt) : w \in BOOLEAN, opt \in BOOLEAN}

(* cache.load_by_guid() *)
LoadByGuid ==
    \E r \in {load_by_guid(cache, server.tile, server.print)} :
        Call("load_by_guid", "", [c |-> r.c, exc |-> r.exc, msg |-> r.msg,
                                  ret |-> <<>>, n |-> r.n])

(* the record with the given number in the logbook *)
MkLogData(i) ==
    [LogTypeImage |-> "2.png", LogText |-> "log " \o NatStr(i),
     Visited |-> "01/03/2015", UserName |-> "Dave"]

(* a page of the logbook endpoint: kind n >= 0 is a successful page with  *)
(* the n records after the first-1 served so far, kind -1 a failed page   *)
(* with a msg, kind -2 a page with another status and no msg              *)
MkPage(kind, first) ==
    CASE kind = -1 ->
           [status |-> "failed", msg |-> Present("token expired"),
            data |-> <<>>]
      [] kind = -2 -> [status |-> "error", msg |-> Absent, data |-> <<>>]
      [] OTHER ->
           [status |-> "success", msg |-> Absent,
            data |-> [j \in 1..kind |-> MkLogData(first + j)]]

RECURSIVE MkPages(_, _)
MkPages(kinds, first) ==
    IF kinds = <<>> THEN <<>>
    ELSE <<MkPage(Head(kinds), first)>>
           \o MkPages(Tail(kinds),
                      first + (IF Head(kinds) > 0 THEN Head(kinds) ELSE 0))

RECURSIVE SeqsUpTo(_, _)
SeqsUpTo(A, n) ==
    IF n = 0 THEN {<<>>}
    ELSE LET p == SeqsUpTo(A, n - 1)
         IN  p \cup {Append(q, a) : q \in p, a \in A}

PageKinds == (0..MaxPageSize) \cup {-1, -2}

Scripts == {MkPages(kinds, 0) : kinds \in SeqsUpTo(PageKinds, MaxPages)}

(* the entities whose logbook is read: with the token given, or with the  *)
(* code only                                                              *)
LogbookConfigs ==
    {[init |-> "token", wp |-> PyStr("GC1"),
      kw |-> << <<"logbook_token", PyStr("TOKEN")>> >>],
     [init |-> "wp", wp |-> PyStr("GC1"), kw |-> <<>>]}

(* cache.load_logbook(limit): the generator object, none of its body run *)
LoadLogbook ==
    /\ gen.pc = "idle"
    /\ \E unlimited \in BOOLEAN, limit \in 0..MaxLimit :
          /\ unlimited => limit = 0
          /\ gen' = [gen EXCEPT !.pc = "start", !.unlimited = unlimited,
                                !.limit = limit,
                                !.limit_arg = limit]
          /\ last' = [op |-> "load_logbook", field |-> "",
                      arg |-> IF unlimited THEN PyNone ELSE PyInt(limit)]
    /\ prev' = cache
    /\ outcome' = NoOutcome
    /\ hist' = Called(hist, "load_logbook")
    /\ UNCHANGED <<cache, fetches, server>>

(* next() on the generator by the consumer, until it has ended *)
Pull ==
    /\ gen.pc \in {"start", "suspended"}
    /\ \E r \in {gen_next(gen, cache, server.doc, server.pages)} :
          /\ gen' = r.g
          /\ cache' = r.c
          /\ outcome' = [exc |-> r.exc, msg |-> r.msg, ret |-> r.ret,
                         n |-> r.n]
          /\ fetches' = fetches + r.n
    /\ prev' = cache
    /\ last' = [op |-> "pull", field |-> "", arg |-> PyNone]
    /\ hist' = [hist EXCEPT !.kinds = @ \cup {"pull"}]
    /\ UNCHANGED server

MaxLinks == 3

(* the inventory listing: whether it has a second table, and the links of *)
(* that table, to trackables ("track") or to something else               *)
MkLink(kind, i) ==
    IF kind = "track"
    THEN [href |-> "/track/details.aspx?id=" \o NatStr(i),
          name |-> "TB " \o NatStr(i)]
    ELSE [href |-> "/profile/?u=" \o NatStr(i), name |-> "Owner " \o NatStr(i)]

MkListing(second_table, kinds) ==
    [second_table |-> second_table,
     links |-> [i \in 1..Len(kinds) |-> MkLink(kinds[i], i)]]

Listings ==
    {MkListing(b, kinds) :
        b \in BOOLEAN, kinds \in SeqsUpTo({"track", "other"}, MaxLinks)}

(* the entities whose inventory is read: with the url given, with the url *)
(* given as None or as an empty text, or with the code only               *)
TrackablesConfigs ==
    {[init |-> "url", wp |-> PyStr("GC1"),
      kw |-> << <<"trackable_page_url", PyStr("track/search.aspx?wid=9")>> >>],
     [init |-> "nourl", wp |-> PyStr("GC1"),
      kw |-> << <<"trackable_page_url", PyNone>> >>],
     [init |-> "emptyurl", wp |-> PyStr("GC1"),
      kw |-> << <<"trackable_page_url", PyStr("")>> >>],
     [init |-> "wp", wp |-> PyStr("GC1"), kw |-> <<>>]}

(* cache.load_trackables(limit): the generator object, none of its body   *)
(* run                                                                    *)
LoadTrackables ==
    /\ gen.pc = "idle"
    /\ \E unlimited \in BOOLEAN, limit \in 0..MaxLimit :
          /\ unlimited => limit = 0
          /\ gen' = [gen EXCEPT !.pc = "start", !.unlimited = unlimited,
                                !.limit = limit,
                                !.limit_arg = limit]
          /\ last' = [op |-> "load_trackables", field |-> "",
                      arg |-> IF unlimited THEN PyNone ELSE PyInt(limit)]
    /\ prev' = cache
    /\ outcome' = NoOutcome
    /\ hist' = Called(hist, "load_trackables")
    /\ UNCHANGED <<cache, fetches, server>>

(* next() on the generator of load_trackables, until it has ended *)
PullTrackables ==
    /\ gen.pc \in {"start", "suspended"}
    /\ \E r \in {trackables_next(gen, cache, server.doc, server.listing)} :
          /\ gen' = r.g
          /\ cache' = r.c
          /\ outcome' = [exc |-> r.exc, msg |-> r.msg, ret |-> r.ret,
                         n |-> r.n]
          /\ fetches' = fetches + r.n
    /\ prev' = cache
    /\ last' = [op |-> "pull", field |-> "", arg |-> PyNone]
    /\ hist' = [hist EXCEPT !.kinds = @ \cup {"pull"}]
    /\ UNCHANGED server

MaxInputs == 2

(* the inputs a logging form may carry *)
FormInputs ==
    {[type |-> "hidden", name |-> "__VIEWSTATE", value |-> Present("abc")],
     [type |-> "hidden", name |-> "__VIEWSTATE", value |-> Present("xyz")],
     [type |-> "hidden", name |-> "LogText", value |-> Present("stale")],
     [type |-> "submit", name |-> "btnSubmit", value |-> Absent],
     [type |-> "text", name |-> "note", value |-> Present("draft")]}

MkForm(select, inputs) == [select |-> select, inputs |-> inputs]

NoForm == MkForm(Absent, <<>>)

Forms ==
    {MkForm(select, inputs) :
        select \in {Absent, Present(<<>>), Present(<<"2">>),
                    Present(<<"2", "3">>)},
        inputs \in SeqsUpTo(FormInputs, MaxInputs)}

(* the Log objects handed to post_log *)
Logs ==
    {[text |-> text, type |-> type, visited |-> visited] :
        text \in {"", "TFTC"}, type \in {"2", "3", "4"},
        visited \in {[year |-> 2015, month |-> 1, day |-> 2],
                     [year |-> 2014, month |-> 12, day |-> 31]}}

(* the entities a log is posted for: with a code, or without one *)
PostConfigs ==
    {[init |-> "wp", wp |-> PyStr("GC1"), kw |-> <<>>],
     [init |-> "none", wp |-> PyNone, kw |-> <<>>]}

(* cache.post_log(log); the server keeps what was posted, with the number *)
(* of the call that posted it                                             *)
PostLog ==
    /\ hist.n < MaxCalls
    /\ \E log \in Logs :
         \E r \in {post_log(cache, log, server.form)} :
            /\ outcome' = [exc |-> r.exc, msg |-> r.msg, ret |-> <<>>,
                           n |-> r.n]
            /\ fetches' = fetches + r.n
            /\ server' = [server EXCEPT !.posted =
                             @ \o [i \in 1..Len(r.post) |->
                                      [call |-> hist.n + 1,
                                       url |-> r.post[i].url,
                                       data |-> r.post[i].data]]]
            /\ last' = [op |-> "post_log", field |-> "", arg |-> log]
    /\ prev' = cache
    /\ hist' = Called(hist, "post_log")
    /\ UNCHANGED <<cache, gen>>

(* Specifications *)

(* what the server serves: the cache_details page, the map.details       *)
(* envelope, the logbook pages, the print page, the inventory listing,    *)
(* the logging form, and the submissions it has received                  *)
NoServer ==
    [doc |-> GoodDoc, tile |-> GoodTile, pages |-> <<>>, print |-> GoodPrint,
     listing |-> MkListing(TRUE, <<>>), form |-> NoForm, posted |-> <<>>]

(* an entity constructed with or without a code and with or without    *)
(* ratings, then assigned to                                            *)
InitSetters ==
    /\ cache \in {Construct(wp, kw).c :
                    wp \in {PyStr("GC1"), PyNone},
                    kw \in {<<>>, << <<"difficulty", PyFloat(200)>>,
                                     <<"terrain", PyFloat(350)>> >>}}
    /\ prev = cache
    /\ last = NoLast
    /\ outcome = NoOutcome
    /\ fetches = 0
    /\ server = NoServer
    /\ gen = IdleGen(FALSE)
    /\ hist = NoHist("setters")

NextSetters ==
    \/ Set_wp
    \/ Set_guid
    \/ Set_location
    \/ Set_original_location
    \/ Set_type
    \/ Set_size
    \/ Set_difficulty
    \/ Set_terrain
    \/ Set_hidden
    \/ Set_attributes
    \/ Set_favorites

SpecSetters == InitSetters /\ [][NextSetters]_vars

(* an entity constructed in one of the ways of EntityConfigs, a server    *)
(* with one of the detail documents, and any calls of load() and of the   *)
(* getters                                                                *)
Init ==
    /\ \E e \in EntityConfigs :
          /\ cache = Construct(e.wp, e.kw).c
          /\ hist = NoHist(e.init)
    /\ prev = cache
    /\ last = NoLast
    /\ outcome = NoOutcome
    /\ fetches = 0
    /\ \E d \in Docs : server = [NoServer EXCEPT !.doc = d]
    /\ gen = IdleGen(FALSE)

Next ==
    \/ Load
    \/ \E f \in LazyFields : Get(f)
    \/ Get_wp
    \/ Get_pm_only
    \/ Get_guid

Spec == Init /\ [][Next]_vars

(* the same entities, a server with one of the map.details envelopes, and *)
(* any calls of load_quick() and of the getters                           *)
InitQuick ==
    /\ \E e \in EntityConfigs :
          /\ cache = Construct(e.wp, e.kw).c
          /\ hist = NoHist(e.init)
    /\ prev = cache
    /\ last = NoLast
    /\ outcome = NoOutcome
    /\ fetches = 0
    /\ \E t \in Tiles : server = [NoServer EXCEPT !.tile = t]
    /\ gen = IdleGen(FALSE)

NextQuick ==
    \/ LoadQuick
    \/ \E f \in LazyFields : Get(f)
    \/ Get_guid

SpecQuick == InitQuick /\ [][NextQuick]_vars

(* an entity, a server with a scripted logbook, an interpreter of either  *)
(* generation, and a consumer that calls load_logbook and drains it       *)
InitLogbook ==
    /\ \E e \in LogbookConfigs :
          /\ cache = Construct(e.wp, e.kw).c
          /\ hist = NoHist(e.init)
    /\ prev = cache
    /\ last = NoLast
    /\ outcome = NoOutcome
    /\ fetches = 0
    /\ \E s \in Scripts :
          server = [NoServer EXCEPT !.pages = s]
    /\ \E pep479 \in BOOLEAN : gen = IdleGen(pep479)

NextLogbook == LoadLogbook \/ Pull

SpecLogbook == InitLogbook /\ [][NextLogbook]_vars

(* the entities read and assigned to: with a code only, or with a code    *)
(* and fields given as falsy, empty or None values                        *)
FalsyConfigs ==
    {[init |-> "wp", wp |-> PyStr("GC1"), kw |-> <<>>],
     [init |-> "falsy", wp |-> PyStr("GC1"),
      kw |-> << <<"name", PyStr("")>>,
                <<"original_location", PyNone>>,
                <<"waypoints", PyDict(<<>>)>>,
                <<"state", PyBool(FALSE)>>,
                <<"found", PyBool(FALSE)>>,
                <<"attributes", PyDict(<<>>)>>,
                <<"summary", PyStr("")>>,
                <<"hint", PyStr("")>>,
                <<"favorites", PyInt(0)>>,
                <<"logbook_token", PyNone>>,
                <<"trackable_page_url", PyNone>> >>]}

(* those entities, a server with a detail page with or without its        *)
(* optional parts or with the restricted banner, and any loads, reads of  *)
(* lazy fields and assignments of attributes                              *)
InitFalsy ==
    /\ \E e \in FalsyConfigs :
          /\ Construct(e.wp, e.kw).exc = "ok"
          /\ cache = Construct(e.wp, e.kw).c
          /\ hist = NoHist(e.init)
    /\ prev = cache
    /\ last = NoLast
    /\ outcome = NoOutcome
    /\ fetches = 0
    /\ \E d \in {GoodDoc, MkDoc("ok", FALSE, "GC1", Present("Found It!"), TRUE),
                 MkDoc("ok", TRUE, "GC1", Absent, FALSE)} :
          server = [NoServer EXCEPT !.doc = d]
    /\ gen = IdleGen(FALSE)

NextFalsy ==
    \/ Load
    \/ \E f \in LazyFields : Get(f)
    \/ Set_attributes

SpecFalsy == InitFalsy /\ [][NextFalsy]_vars

(* an entity, a server with a logging form, and a caller that posts logs *)
InitPost ==
    /\ \E e \in PostConfigs :
          /\ cache = Construct(e.wp, e.kw).c
          /\ hist = NoHist(e.init)
    /\ prev = cache
    /\ last = NoLast
    /\ outcome = NoOutcome
    /\ fetches = 0
    /\ \E f \in Forms : server = [NoServer EXCEPT !.form = f]
    /\ gen = IdleGen(FALSE)

NextPost == PostLog

SpecPost == InitPost /\ [][NextPost]_vars

(* an entity, a server with an inventory listing and a detail page, an    *)
(* interpreter of either generation, and a consumer that calls            *)
(* load_trackables and drains it                                          *)
InitTrackables ==
    /\ \E e \in TrackablesConfigs :
          /\ cache = Construct(e.wp, e.kw).c
          /\ hist = NoHist(e.init)
    /\ prev = cache
    /\ last = NoLast
    /\ outcome = NoOutcome
    /\ fetches = 0
    /\ \E l \in Listings,
          d \in {GoodDoc, MkDoc("ok", FALSE, "GC1", Absent, TRUE),
                 MkDoc("ok", TRUE, "GC1", Absent, FALSE),
                 MkDoc("error", FALSE, "GC1", Absent, FALSE)} :
          server = [NoServer EXCEPT !.listing = l, !.doc = d]
    /\ \E pep479 \in BOOLEAN : gen = IdleGen(pep479)

NextTrackables == LoadTrackables \/ PullTrackables

SpecTrackables == InitTrackables /\ [][NextTrackables]_vars

(* the entities the strategies are tried on: with a code only, with a     *)
(* guid and the four fields the print page does not give, with a guid     *)
(* only, with nothing, with a code and two of the four fields             *)
GuidConfigs ==
    {[init |-> "wp", wp |-> PyStr("GC1"), kw |-> <<>>],
     [init |-> "guid", wp |-> PyStr("GC1"),
      kw |-> << <<"guid", PyStr(SomeGuid)>>,
                <<"original_location", PyStr("N49 E13")>>,
                <<"state", PyBool(TRUE)>>,
                <<"found", PyBool(TRUE)>>,
                <<"pm_only", PyBool(FALSE)>> >>],
     [init |-> "guidonly", wp |-> PyNone,
      kw |-> << <<"guid", PyStr(SomeGuid)>> >>],
     [init |-> "none", wp |-> PyNone, kw |-> <<>>],
     [init |-> "state", wp |-> PyStr("GC1"),
      kw |-> << <<"state", PyBool(TRUE)>>,
                <<"pm_only", PyBool(FALSE)>> >>]}

(* those entities, a server with a print page, an envelope and a detail   *)
(* page that may carry another code, and any calls of the three           *)
(* strategies, of a lazy getter and of the wp setter                      *)
InitGuid ==
    /\ \E e \in GuidConfigs :
          /\ cache = Construct(e.wp, e.kw).c
          /\ hist = NoHist(e.init)
    /\ prev = cache
    /\ last = NoLast
    /\ outcome = NoOutcome
    /\ fetches = 0
    /\ \E p \in Prints,
          t \in {GoodTile, MkTile("failed", TRUE, 0, "Multi-cache")},
          d \in {GoodDoc, MkDoc("ok", FALSE, "GC2", Absent, FALSE),
                 MkDoc("ok", TRUE, "GC2", Absent, FALSE)} :
          server = [NoServer EXCEPT !.print = p, !.tile = t, !.doc = d]
    /\ gen = IdleGen(FALSE)

NextGuid ==
    \/ LoadByGuid
    \/ LoadQuick
    \/ Load
    \/ Get("name")
    \/ Set_wp

SpecGuid == InitGuid /\ [][NextGuid]_vars

(* the identity code setter alone, on all its inputs *)
NextWp == Assign_wp

SpecWp == InitSetters /\ [][NextWp]_vars

(* the two rating setters alone, on all their inputs *)
NextRating == Assign_difficulty \/ Assign_terrain

SpecRating == InitSetters /\ [][NextRating]_vars

(* Properties *)

(* the setter's argument and the field's value before and after *)
LastSet(f) == last.op = "set" /\ last.field = f

(* C4: an assignment that raises leaves the stored value of the assigned  *)
(* field exactly as it was before the assignment (same value or unset),   *)
(* for every setter, the attributes setter included.                      *)
C4_ValidatedOrUnchanged ==
    (last.op = "set" /\ outcome.exc # "ok")
        => cache[last.field] = prev[last.field]

(* the text s, without its leading and trailing whitespace and with every *)
(* letter upper-cased, is t                                               *)
TrimmedUpperForm(s, t) ==
    \E i \in 0..Len(s) :
        /\ Len(t) <= Len(s) - i
        /\ \A k \in 1..i : IsSpace(CharAt(s, k))
        /\ \A k \in (i + Len(t) + 1)..Len(s) : IsSpace(CharAt(s, k))
        /\ t # "" => ~IsSpace(CharAt(t, 1)) /\ ~IsSpace(CharAt(t, Len(t)))
        /\ \A k \in 1..Len(t) :
              LET a == CharAt(s, i + k)
                  b == CharAt(t, k)
              IN  \/ a = b /\ ~\E j \in 1..26 : CharAt(Lowers, j) = a
                  \/ \E j \in 1..26 :
                        CharAt(Lowers, j) = a /\ CharAt(Uppers, j) = b

(* after leading whitespace the text s goes on with G or g, then C or c *)
HasGcPrefix(s) ==
    \E i \in 1..(Len(s) - 1) :
        /\ \A k \in 1..(i - 1) : IsSpace(CharAt(s, k))
        /\ CharAt(s, i) \in {"G", "g"}
        /\ CharAt(s, i + 1) \in {"C", "c"}

(* C5: assigning wp a text whose upper-cased trimmed form starts with GC  *)
(* stores exactly that form; any other text raises the validation error   *)
(* and leaves the stored code as it was (still unset if it was unset).    *)
C5_WpAssignment ==
    LastSet("wp") =>
        IF HasGcPrefix(last.arg.s)
        THEN /\ outcome.exc = "ok"
             /\ IsSet(cache, "wp")
             /\ Val(cache, "wp").ty = "str"
             /\ TrimmedUpperForm(last.arg.s, Val(cache, "wp").s)
        ELSE /\ outcome.exc = "ValueError"
             /\ cache["wp"] = prev["wp"]

(* a lower-case code with surrounding whitespace was stored normalised   *)
(* over an earlier code                                                   *)
C5_Witness ==
    /\ LastSet("wp")
    /\ last.arg.s = " gC1"
    /\ prev["wp"] = <<PyStr("GC1")>>
    /\ cache["wp"] = <<PyStr("GC1")>>
    /\ outcome.exc = "ok"

(* the nine ratings 1.0, 1.5, ..., 5.0, in hundredths *)
NineRatings == {100 + 50 * k : k \in 0..8}

(* C6: a difficulty or terrain assignment of a number is accepted if and  *)
(* only if the number is one of 1.0, 1.5, ..., 5.0; it then stores that   *)
(* number; any other number raises the validation error and leaves the    *)
(* stored rating as it was.                                               *)
C6_RatingAcceptance ==
    \A f \in {"difficulty", "terrain"} :
        (LastSet(f) /\ last.arg.ty \in {"float", "int"}) =>
            LET h == IF last.arg.ty = "float" THEN last.arg.n
                     ELSE last.arg.n * 100
            IN  IF h \in NineRatings
                THEN outcome.exc = "ok" /\ cache[f] = <<PyFloat(h)>>
                ELSE outcome.exc = "ValueError" /\ cache[f] = prev[f]

(* 2.3 was refused for a terrain that stays 3.5 *)
C6_Witness ==
    /\ LastSet("terrain")
    /\ last.arg = PyFloat(230)
    /\ outcome.exc = "ValueError"
    /\ prev["terrain"] = <<PyFloat(350)>>
    /\ cache["terrain"] = <<PyFloat(350)>>

(* the detail document is served, has no pmo-banner and a title that      *)
(* starts with a GC code                                                  *)
DocGood(d) ==
    /\ d.status = "ok"
    /\ ~d.pmo
    /\ d.title # Absent
    /\ StartsWith(d.title[1], "GC")

(* C1: on an entity constructed with a code only, with a non-restricted   *)
(* detail document that parses, any sequence of reads of lazy fields      *)
(* issues exactly one fetch in total: the first read runs load(), load()  *)
(* sets every lazy field, and every later read finds its field set.       *)
C1_LazyIdempotence ==
    (hist.init = "wp" /\ hist.kinds = {"get"} /\ DocGood(server.doc)) =>
        /\ fetches = 1
        /\ \A f \in LazyFields : IsSet(cache, f)
        /\ outcome.exc = "ok"
        /\ outcome.ret = cache[last.field]
        /\ hist.n >= 2 => outcome.n = 0 /\ cache = prev

(* a second lazy read, of the waypoints, that found its field set *)
C1_Witness ==
    /\ hist.init = "wp"
    /\ hist.kinds = {"get"}
    /\ hist.n = 2
    /\ DocGood(server.doc)
    /\ last.field = "waypoints"
    /\ outcome.n = 0
    /\ fetches = 1

(* the fields a restricted document gives *)
ReducedFields ==
    {"wp", "name", "author", "difficulty", "terrain", "size", "favorites",
     "type", "pm_only"}

Restricted(d) == d.status = "ok" /\ d.pmo

(* C2: load() of a document with the restricted-access banner sets the    *)
(* code, name, author, difficulty, terrain, size, favorites and type,     *)
(* sets pm_only true and signals PMOnlyException; the fields it did not   *)
(* assign keep their values, and afterwards each of the fields it set is  *)
(* read without a further fetch.                                          *)
C2_RestrictedLoad ==
    (Restricted(server.doc) /\ hist.init # "none") =>
        /\ last.op = "load" =>
              /\ outcome.exc = "PMOnlyException"
              /\ outcome.n = 1
              /\ \E code \in {"GC1", "GC2"} :
                    /\ server.doc.gccode = "  " \o code \o "\n"
                    /\ cache["wp"] = <<PyStr(code)>>
              /\ cache["name"] = <<PyStr("Secret Cache")>>
              /\ cache["author"] = <<PyStr("Alice")>>
              /\ cache["difficulty"] = <<PyFloat(450)>>
              /\ cache["terrain"] = <<PyFloat(200)>>
              /\ cache["size"] = <<PySize("small")>>
              /\ cache["favorites"] = <<PyInt(7)>>
              /\ cache["type"] = <<PyType("2")>>
              /\ cache["pm_only"] = <<PyBool(TRUE)>>
              /\ \A f \in Fields \ ReducedFields : cache[f] = prev[f]
        /\ ("load" \in hist.kinds /\ last.op \in {"get", "get_plain"}
              /\ last.field \in ReducedFields) =>
              /\ outcome.exc = "ok"
              /\ outcome.n = 0
              /\ outcome.ret = cache[last.field]
              /\ cache = prev

(* the name read after a restricted load() on an entity that keeps the    *)
(* location it was constructed with                                       *)
C2_Witness ==
    /\ Restricted(server.doc)
    /\ hist.init = "kwargs"
    /\ "load" \in hist.kinds
    /\ last.op = "get"
    /\ last.field = "name"
    /\ outcome.ret = <<PyStr("Secret Cache")>>
    /\ cache["location"] = <<PyPoint("N50 E14")>>
    /\ fetches = 1

(* location is read, never having been set, after a load() that signalled *)
(* the restricted-access condition                                        *)
ReadsLocationAfterRestrictedLoad ==
    /\ Restricted(server.doc)
    /\ hist.init \in {"wp", "url"}
    /\ "load" \in hist.kinds
    /\ last.op = "get"
    /\ last.field = "location"

(* C3 as claimed: after a load() that signalled the restricted-access     *)
(* condition, reading the never-set location raises a Load error.         *)
C3_LocationRaisesLoadError ==
    ReadsLocationAfterRestrictedLoad => outcome.exc = "LoadError"

(* C3 amended: after a load() that signalled the restricted-access        *)
(* condition, reading the never-set location runs load() once more, with  *)
(* one more fetch, and raises its PMOnlyException; it returns no value    *)
(* and location stays unset.                                              *)
C3_LocationRaisesPMOnly ==
    ReadsLocationAfterRestrictedLoad =>
        /\ outcome.exc = "PMOnlyException"
        /\ outcome.ret = <<>>
        /\ outcome.n = 1
        /\ ~IsSet(cache, "location")

C3_Witness ==
    /\ ReadsLocationAfterRestrictedLoad
    /\ outcome.exc = "PMOnlyException"
    /\ fetches = 2

(* the envelope load_quick() refuses *)
BadEnvelope(t) == t.status = "failed" \/ Len(t.data) # 1

(* C9: load_quick() raises LoadError if and only if the envelope has      *)
(* status "failed" or its data list does not hold exactly one record; the *)
(* error carries the server's message when there is one, and no field of  *)
(* the entity has been modified.                                          *)
C9_QuickFailure ==
    (last.op = "load_quick" /\ IsSet(prev, "wp")) =>
        /\ outcome.exc = "LoadError" <=> BadEnvelope(server.tile)
        /\ BadEnvelope(server.tile) =>
              /\ cache = prev
              /\ server.tile.msg # Absent =>
                    Contains(outcome.msg, server.tile.msg[1])

(* a successful envelope with two records and a message was refused *)
C9_Witness ==
    /\ last.op = "load_quick"
    /\ hist.init = "kwargs"
    /\ server.tile.status = "success"
    /\ Len(server.tile.data) = 2
    /\ server.tile.msg = Present("no such cache")
    /\ outcome.exc = "LoadError"
    /\ cache = prev

(* the fields load_quick() sets *)
QuickFields ==
    {"name", "type", "state", "size", "difficulty", "terrain", "hidden",
     "author", "favorites", "pm_only", "guid"}

NotOnPrintPage == {"original_location", "state", "found", "pm_only"}

(* C11: a call of load_by_guid(), from every starting state, the one      *)
(* without a guid included, leaves original_location, state, found and    *)
(* pm_only exactly as they were (same value, or still unset).             *)
C11_GuidFrame ==
    last.op = "load_by_guid"
      => \A f \in NotOnPrintPage : cache[f] = prev[f]

(* the code the detail document carries: in its reduced layout when it is *)
(* restricted, else the first word of its title                           *)
DocCode(d) ==
    IF d.pmo THEN Strip(d.gccode) ELSE BeforeFirst(d.title[1], " ")

(* C18 as claimed: once the identity code is stored, no later operation   *)
(* changes it: neither an assignment nor a population strategy.           *)
C18_WpNeverChanges ==
    IsSet(prev, "wp") => cache["wp"] = prev["wp"]

(* C18 amended: once the identity code is stored it stays stored, and the *)
(* only operations that change it are a later assignment of another valid *)
(* code, which stores that code's upper-cased trimmed form, and load(),   *)
(* called directly or by a lazy read, which stores the code the fetched   *)
(* document carries; load_quick() and load_by_guid() never change it.     *)
C18_WpChangedOnlyBySetterAndLoad ==
    IsSet(prev, "wp") =>
        /\ IsSet(cache, "wp")
        /\ cache["wp"] # prev["wp"] =>
              \/ /\ last.op = "set"
                 /\ last.field = "wp"
                 /\ outcome.exc = "ok"
                 /\ last.arg.ty = "str"
                 /\ TrimmedUpperForm(last.arg.s, Val(cache, "wp").s)
              \/ /\ last.op \in {"load", "get"}
                 /\ outcome.n = 1
                 /\ Val(cache, "wp").s = DocCode(server.doc)

(* load() on an entity with the code GC1 stored the code GC2 of the       *)
(* document served                                                        *)
C18_Witness ==
    /\ last.op = "load"
    /\ prev["wp"] = <<PyStr("GC1")>>
    /\ cache["wp"] = <<PyStr("GC2")>>
    /\ outcome.exc = "ok"

(* the scripted pages all succeed *)
AllPagesSucceed ==
    \A k \in 1..Len(server.pages) : server.pages[k].status = "success"

(* the number of the first empty page of the logbook *)
RECURSIVE FirstEmptyPage(_, _)
FirstEmptyPage(pages, k) ==
    IF PageAt(pages, k).data = <<>> THEN k
    ELSE FirstEmptyPage(pages, k + 1)

(* the logs of the pages before the k-th, in order *)
RECURSIVE LogsBefore(_, _)
LogsBefore(pages, k) ==
    IF k <= 1 THEN <<>>
    ELSE LogsBefore(pages, k - 1)
           \o [j \in 1..Len(PageAt(pages, k - 1).data) |->
                 MkLog(PageAt(pages, k - 1).data[j])]

AvailableLogs == LogsBefore(server.pages, FirstEmptyPage(server.pages, 1))

(* min(limit, N) for the limit load_logbook was called with *)
Wanted ==
    IF gen.unlimited \/ gen.limit_arg > Len(AvailableLogs)
    THEN Len(AvailableLogs) ELSE gen.limit_arg

(* the logs a drained generator has yielded over successful pages *)
DrainedLogsRight ==
    (gen.pc = "done" /\ AllPagesSucceed)
      => gen.yielded = SubSeq(AvailableLogs, 1, Wanted)

(* C7: over successful pages, a drained load_logbook(limit) with limit >= 0 *)
(* has yielded the first min(limit, N) logs in order, N the logs before    *)
(* the first empty page, and its last next() ended the iteration cleanly.  *)
C7_LogCountAndCleanEnd ==
    (gen.pc = "done" /\ AllPagesSucceed)
      => /\ outcome.exc = "StopIteration"
         /\ Len(gen.yielded) = Wanted
         /\ gen.yielded = SubSeq(AvailableLogs, 1, Wanted)

(* the page request of the last next() was answered with another status   *)
(* than "success"                                                         *)
PullHitFailedPage ==
    /\ last.op = "pull"
    /\ gen.fetched
    /\ PageAt(server.pages, Len(gen.requests)).status # "success"

(* C8: a next() whose page request is answered with a status other than   *)
(* "success" raises LoadError, carrying the msg of the answer when it has *)
(* one; the generator has ended, and the logs of all earlier pages had    *)
(* been delivered before.                                                 *)
C8_FailedPageRaises ==
    PullHitFailedPage
      => /\ outcome.exc = "LoadError"
         /\ outcome.ret = <<>>
         /\ gen.pc = "done"
         /\ LET res == PageAt(server.pages, Len(gen.requests))
            IN  res.msg # Absent => Contains(outcome.msg, res.msg[1])
         /\ gen.yielded = LogsBefore(server.pages, Len(gen.requests))

(* a failed second page with a msg, after a page of logs was delivered *)
C8_Witness ==
    /\ PullHitFailedPage
    /\ Len(gen.requests) = 2
    /\ Len(gen.yielded) > 0
    /\ PageAt(server.pages, 2).msg # Absent
    /\ outcome.exc = "LoadError"

(* the number of stubs load_trackables(limit) is to yield from a listing *)
WantedTrackables ==
    IF gen.unlimited \/ gen.limit_arg > Len(TrackLinks(server.listing.links))
    THEN Len(TrackLinks(server.listing.links))
    ELSE gen.limit_arg

(* C12: once load_trackables(limit) has been drained on an entity whose   *)
(* inventory url could be resolved, a detail fetch was issued only if the *)
(* url had never been set; with no url the sequence is empty, ends        *)
(* without an error and no listing was fetched; with a url exactly one    *)
(* listing was fetched and, the listing having its table, the first       *)
(* min(limit, M) links to trackables were yielded in document order and   *)
(* the sequence ended without an error                                    *)
C12_TrackablesDrain ==
    (gen.pc = "done" /\ IsSet(cache, "trackable_page_url"))
      => /\ fetches = Len(gen.requests)
                        + (IF hist.init = "wp" THEN 1 ELSE 0)
         /\ IF ~Py_bool(Val(cache, "trackable_page_url"))
            THEN /\ gen.yielded = <<>>
                 /\ gen.requests = <<>>
                 /\ outcome.exc = "StopIteration"
            ELSE /\ Len(gen.requests) = 1
                 /\ server.listing.second_table
                      => /\ gen.yielded =
                              SubSeq(TrackLinks(server.listing.links), 1,
                                     WantedTrackables)
                         /\ outcome.exc = "StopIteration"

(* the same on an interpreter that lets a StopIteration raised in the     *)
(* generator body end the iteration                                       *)
TrackablesDrainBefore37 == gen.pep479 \/ C12_TrackablesDrain

(* whatever the interpreter, the stubs yielded and the fetches issued    *)
TrackablesCounts ==
    (gen.pc = "done" /\ IsSet(cache, "trackable_page_url"))
      => /\ fetches = Len(gen.requests)
                        + (IF hist.init = "wp" THEN 1 ELSE 0)
         /\ IF ~Py_bool(Val(cache, "trackable_page_url"))
            THEN gen.yielded = <<>> /\ gen.requests = <<>>
            ELSE /\ Len(gen.requests) = 1
                 /\ server.listing.second_table
                      => gen.yielded =
                            SubSeq(TrackLinks(server.listing.links), 1,
                                   WantedTrackables)

(* what the last call posted *)
PostedNow ==
    SelectSeq(server.posted, LAMBDA p : p.call = hist.n)

(* the values the options of the form's select advertise *)
Advertised ==
    IF server.form.select = Absent THEN {}
    ELSE {server.form.select[1][i] : i \in 1..Len(server.form.select[1])}

(* the value the data carry under a key *)
DataHas(data, k, v) == \E i \in 1..Len(data) : data[i] = Item(k, v)

(* the entity has a code and the form has its select, so that the         *)
(* logging page can be loaded                                             *)
FormLoads == IsSet(cache, "wp") /\ server.form.select # Absent

(* C13: post_log posts at most once, and only when the text of the log   *)
(* is not empty and its type is among the options of the form; an empty   *)
(* text raises ValueError with no request at all, a type that the loaded  *)
(* form does not advertise raises ValueError with no POST; what is posted *)
(* carries every hidden input of the form with its value, except that     *)
(* LogTypeId, LogDate and LogText are those of the log                    *)
C13_PostOnlyValidated ==
    last.op = "post_log"
      => /\ Len(PostedNow) <= 1
         /\ PostedNow # <<>>
              => /\ last.arg.text # ""
                 /\ last.arg.type \in Advertised
                 /\ outcome.exc = "ok"
                 /\ DataHas(PostedNow[1].data, "LogTypeId", last.arg.type)
                 /\ DataHas(PostedNow[1].data, "LogDate",
                            strftime_ymd(last.arg.visited))
                 /\ DataHas(PostedNow[1].data, "LogText", last.arg.text)
                 /\ \A i \in 1..Len(server.form.inputs) :
                       LET inp == server.form.inputs[i]
                       IN  inp.type = "hidden"
                             => \E j \in 1..Len(PostedNow[1].data) :
                                   /\ PostedNow[1].data[j].k = inp.name
                                   /\ (/\ inp.name \notin {"LogTypeId", "LogDate",
                                                           "LogText"}
                                       /\ \A m \in (i + 1)..Len(server.form.inputs) :
                                             server.form.inputs[m].name # inp.name)
                                        => PostedNow[1].data[j].v = inp.value[1]
         /\ last.arg.text = ""
              => /\ outcome.exc = "ValueError"
                 /\ outcome.n = 0
                 /\ PostedNow = <<>>
         /\ (last.arg.text # "" /\ FormLoads
               /\ last.arg.type \notin Advertised)
              => /\ outcome.exc = "ValueError"
                 /\ PostedNow = <<>>
         /\ (last.arg.text # "" /\ FormLoads /\ last.arg.type \in Advertised)
              => Len(PostedNow) = 1

(* a log was posted over a form whose hidden LogText input was replaced *)
C13_Witness ==
    /\ last.op = "post_log"
    /\ PostedNow # <<>>
    /\ \E i \in 1..Len(server.form.inputs) :
          server.form.inputs[i].name = "LogText"
    /\ DataHas(PostedNow[1].data, "LogText", "TFTC")
    /\ Len(server.posted) = 2

(* the names of the registry as keys *)
RegistryKeys == {PyStr(n) : n \in _possible_attributes}

(* the key under which the setter is to store a key of the mapping: its   *)
(* trimmed lower-case form when it is a text, itself otherwise            *)
NormalKey(k) == IF k.ty = "str" THEN PyStr(Lower(Strip(k.s))) ELSE k

(* the stored map holds, for each key of the mapping whose normal form is *)
(* in the registry, that form with the value given last for it, and       *)
(* nothing else                                                           *)
StoresKnownKeys(stored, given) ==
    /\ \A i \in 1..Len(stored) :
          /\ \E j \in 1..Len(given) : NormalKey(given[j].k) = stored[i].k
          /\ \A m \in 1..Len(stored) : stored[m].k = stored[i].k => m = i
    /\ \A j \in 1..Len(given) :
          NormalKey(given[j].k) \in RegistryKeys
            => \E i \in 1..Len(stored) :
                  /\ stored[i].k = NormalKey(given[j].k)
                  /\ (\A m \in (j + 1)..Len(given) :
                         NormalKey(given[m].k) # NormalKey(given[j].k))
                       => stored[i].v = given[j].v

(* every key of the stored attribute map is a key of the registry *)
StoredKeysInRegistry ==
    IsSet(cache, "attributes")
      => \A i \in 1..Len(Val(cache, "attributes").items) :
            Val(cache, "attributes").items[i].k \in RegistryKeys

(* a successful load() of the icons dogs-yes, kids-no, parking-blank,     *)
(* bogus-yes stores exactly dogs: true, kids: false                       *)
IconsDecoded ==
    (last.op = "load" /\ outcome.exc = "ok"
       /\ server.doc.attr_srcs = <<"/a/dogs-yes.gif", "/a/kids-no.gif",
                                   "/a/parking-blank.gif", "/a/bogus-yes.gif">>)
      => /\ IsSet(cache, "attributes")
         /\ Len(Val(cache, "attributes").items) = 2
         /\ DataHas(Val(cache, "attributes").items, PyStr("dogs"), PyBool(TRUE))
         /\ DataHas(Val(cache, "attributes").items, PyStr("kids"), PyBool(FALSE))

FalsyAfterLoad ==
    {"original_location", "trackable_page_url", "favorites", "waypoints",
     "found"}

(* C15: a read of a lazy field runs load(), with its one fetch, if and    *)
(* only if the field was never set; a field that is set, even to a falsy, *)
(* empty or None value, is returned as it is with no fetch and no change  *)
(* of the entity; and a successful load() of a document without its       *)
(* optional parts leaves those fields set, to falsy values                *)
C15_LazyTrigger ==
    /\ last.op = "get"
         => /\ IsSet(prev, last.field) <=> outcome.n = 0
            /\ ~IsSet(prev, last.field) <=> outcome.n = 1
            /\ IsSet(prev, last.field)
                 => /\ outcome.exc = "ok"
                    /\ outcome.ret = prev[last.field]
                    /\ cache = prev
    /\ (last.op = "load" /\ outcome.exc = "ok" /\ server.doc = GoodDoc)
         => \A f \in FalsyAfterLoad :
               IsSet(cache, f) /\ ~Py_bool(Val(cache, f))

(* a read of original_location after load() had set it to None *)
C15_Witness ==
    /\ hist.init = "wp"
    /\ "load" \in hist.kinds
    /\ last.op = "get"
    /\ last.field = "original_location"
    /\ prev["original_location"] = <<PyNone>>
    /\ outcome.ret = <<PyNone>>
    /\ outcome.n = 0

(* a read of favorites given as 0 at construction *)
FalsyAssignedRead ==
    /\ hist.init = "falsy"
    /\ last.op = "get"
    /\ last.field = "favorites"
    /\ outcome.ret = <<PyInt(0)>>
    /\ fetches = 0

(* the logs delivered before the k-th page request: those of the earlier  *)
(* pages                                                                  *)
DeliveredBefore(k) == Len(LogsBefore(server.pages, k))

(* min(n, 100) *)
CappedAtMaxPerPage(n) == IF n > MaxPerPage THEN MaxPerPage ELSE n

(* C16: the k-th page request of load_logbook has the index k and asks    *)
(* for min(remaining limit, 100) items, the remaining limit being the     *)
(* limit less the logs delivered so far                                   *)
C16_PageOfRemaining ==
    \A k \in 1..Len(gen.requests) :
       /\ gen.requests[k].idx = k
       /\ gen.requests[k].num =
             IF gen.unlimited THEN MaxPerPage
             ELSE CappedAtMaxPerPage(gen.limit_arg - DeliveredBefore(k))

(* C16 as the code has it: the k-th page request has the index k and      *)
(* asks for min(limit, 100) items, limit being the limit the call was     *)
(* given, the same number in every request                                *)
C16_PageOfLimit ==
    \A k \in 1..Len(gen.requests) :
       /\ gen.requests[k].idx = k
       /\ gen.requests[k].num =
             IF gen.unlimited THEN MaxPerPage
             ELSE CappedAtMaxPerPage(gen.limit_arg)

(* a second page was requested after logs of the first were delivered *)
C16_Witness ==
    /\ Len(gen.requests) = 2
    /\ gen.limit_arg = 3
    /\ Len(gen.yielded) = 3
    /\ gen.requests[2] = [idx |-> 2, num |-> 3]

(* the last next() found the limit already reached *)
PullAtLimit ==
    /\ last.op = "pull"
    /\ ~gen.unlimited
    /\ outcome.ret = <<>>
    /\ Len(gen.yielded) = gen.limit_arg

(* the pages needed for the logs wanted *)
RECURSIVE PagesNeeded(_)
PagesNeeded(k) ==
    IF Len(LogsBefore(server.pages, k + 1)) >= Wanted THEN k
    ELSE PagesNeeded(k + 1)

(* C17: a next() after limit logs were yielded ends the iteration and     *)
(* requests no page, and over successful pages the page requests are at   *)
(* most the pages needed and one empty page                               *)
C17_NoFetchAtLimit ==
    /\ PullAtLimit => ~gen.fetched /\ outcome.exc = "StopIteration"
    /\ AllPagesSucceed => Len(gen.requests) <= PagesNeeded(0) + 1

(* whatever the interpreter, a next() at the limit requests no page *)
NoPageAtLimit == PullAtLimit => ~gen.fetched

(* over successful pages the page requests are at most the pages needed   *)
(* and one more                                                           *)
PageRequestsBounded ==
    AllPagesSucceed => Len(gen.requests) <= PagesNeeded(0) + 1

(* the found-status element of the document says the user found or       *)
(* attended the cache                                                     *)
FoundText(d) ==
    /\ d.found_status # Absent
    /\ \/ Contains(d.found_status[1], "Found It!")
       \/ Contains(d.found_status[1], "Attended")

(* C19: after a successful load() of a non-restricted document, found is  *)
(* true exactly when the document has a found-status element whose text   *)
(* contains "Found It!" or "Attended"                                     *)
C19_FoundFromText ==
    (last.op = "load" /\ outcome.exc = "ok" /\ ~Restricted(server.doc))
      => cache["found"] = <<PyBool(FoundText(server.doc))>>

(* found is false without the element and true with the found text *)
FoundRightWithoutOtherText ==
    (last.op = "load" /\ outcome.exc = "ok" /\ ~Restricted(server.doc)
       /\ (server.doc.found_status = Absent \/ FoundText(server.doc)))
      => cache["found"] = <<PyBool(FoundText(server.doc))>>

(* C20: on an entity constructed with a code only, a read of pm_only     *)
(* that finds it unset runs load() and returns the flag load() stored;    *)
(* it does not raise for the unset field                                  *)
C20_PmOnlyLazy ==
    (hist.init = "wp" /\ last.op = "get_plain" /\ last.field = "pm_only"
       /\ ~IsSet(prev, "pm_only"))
      => /\ outcome.n = 1
         /\ outcome.exc # "AttributeError"
         /\ outcome.exc = "ok"
              => IsSet(cache, "pm_only") /\ outcome.ret = cache["pm_only"]

(* once a strategy has stored the flag, the read returns it *)
PmOnlyReadWhenSet ==
    (last.op = "get_plain" /\ last.field = "pm_only" /\ IsSet(prev, "pm_only"))
      => outcome.exc = "ok" /\ outcome.ret = prev["pm_only"] /\ outcome.n = 0

====
